---- MODULE Spec2Model ----
(***************************************************************************)
(* Deposit settlement of the hyperramp backend: the in-memory ledger       *)
(* pendingTransactions, the balance cache lastBalanceCheck and the async   *)
(* function processDeposit of src/src/services/onrampService.js, its       *)
(* caller handleWebhook of src/src/controllers/stripeController.js, and as *)
(* their environment the settlement venue of hyperliquidService            *)
(* (getHyperliquidBalance, depositUsdcToHyperliquid) and the payment       *)
(* provider's stripe.refunds.create.                                       *)
(*                                                                         *)
(* processDeposit is an async function: the code between two awaits runs   *)
(* without interruption, and at every await other calls may run.  Each     *)
(* action below is one such uninterrupted piece of one call.               *)
(***************************************************************************)
EXTENDS Integers, Sequences, FiniteSets, TLC

(* -------------------------- numbers and texts ------------------------- *)

\* Amounts and balances are JavaScript numbers: IEEE 754 doubles.  A number
\* is held here as the double it is (see Numbers below), with its sign, an
\* odd significand and a binary exponent, or as NaN or an Infinity; the
\* arithmetic rounds to the nearest double as the language does, and texts
\* are read by parseFloat and written by toString and toFixed digit for
\* digit.

Max(a, b) == IF a > b THEN a ELSE b

Min(a, b) == IF a < b THEN a ELSE b

Digits == {"0", "1", "2", "3", "4", "5", "6", "7", "8", "9"}

\* the white space and line terminators that String.prototype.trim and
\* parseFloat skip: space, tab, line feed, carriage return, form feed, and,
\* written as the characters themselves, the vertical tab U+000B, the
\* no-break space U+00A0, the ogham space U+1680 and the byte order mark
\* U+FEFF.  The others (U+2000 to U+200A, U+2028, U+2029, U+202F, U+205F,
\* U+3000) cannot be written in a string of this module.
WhiteSpace ==
    {" ", "\t", "\n", "\r", "\f", "", " ", " ", "﻿"}

DigitValue(d) ==
    CASE d = "0" -> 0 [] d = "1" -> 1 [] d = "2" -> 2 [] d = "3" -> 3
      [] d = "4" -> 4 [] d = "5" -> 5 [] d = "6" -> 6 [] d = "7" -> 7
      [] d = "8" -> 8 [] d = "9" -> 9

\* the number of characters at the start of the text that are in the set
LeadingCount(text, set) ==
    IF \A i \in 1..Len(text) : SubSeq(text, i, i) \in set THEN Len(text)
    ELSE (CHOOSE i \in 1..Len(text) :
              /\ SubSeq(text, i, i) \notin set
              /\ \A j \in 1..(i - 1) : SubSeq(text, j, j) \in set) - 1

\* the number of characters at the end of the text that are in the set
TrailingCount(text, set) ==
    IF \A i \in 1..Len(text) : SubSeq(text, i, i) \in set THEN Len(text)
    ELSE Len(text) - (CHOOSE i \in 1..Len(text) :
                          /\ SubSeq(text, i, i) \notin set
                          /\ \A j \in (i + 1)..Len(text) : SubSeq(text, j, j) \in set)

\* String.prototype.trim
trim(text) ==
    LET leading == LeadingCount(text, WhiteSpace)
    IN  IF leading = Len(text) THEN ""
        ELSE SubSeq(text, leading + 1,
                    Len(text) - TrailingCount(text, WhiteSpace))

\* the text starts with the prefix
StartsWith(text, prefix) ==
    Len(text) >= Len(prefix) /\ SubSeq(text, 1, Len(prefix)) = prefix

RECURSIVE Repeat(_, _)
\* the text repeated n times
Repeat(text, n) ==
    IF n <= 0 THEN ""
    ELSE IF n = 1 THEN text
    ELSE Repeat(text, n \div 2) \o Repeat(text, n - n \div 2)

\* 2^k
Pow2(k) == 2 ^ k

\* ---------------------------------------------------------------------------
\* Naturals of any size.  A natural is the sequence of its limbs in base
\* 2^15, the least significant first, without a zero at the top; << >> is 0.
\* The operations work on all limbs at once (a carry is found by looking
\* back, a remainder by halving the limbs), not limb after limb, so that a
\* long natural needs no deep recursion.
\* ---------------------------------------------------------------------------

Base == 2 ^ 15

\* the index of the highest limb that is not zero; 0 when there is none
TopLimb(a) ==
    IF \A i \in 1..Len(a) : a[i] = 0 THEN 0
    ELSE CHOOSE i \in 1..Len(a) : a[i] # 0 /\ \A j \in (i + 1)..Len(a) : a[j] = 0

Trimmed(a) ==
    IF Len(a) = 0 THEN a
    ELSE IF a[Len(a)] # 0 THEN a
    ELSE IF Len(a) >= 2 /\ a[Len(a) - 1] # 0 THEN SubSeq(a, 1, Len(a) - 1)
    ELSE SubSeq(a, 1, TopLimb(a))

\* the natural n, 0 <= n < 2^31
Natural(n) ==
    IF n = 0 THEN << >>
    ELSE IF n < Base THEN <<n>>
    ELSE IF n < Base * Base THEN <<n % Base, n \div Base>>
    ELSE <<n % Base, (n \div Base) % Base, n \div (Base * Base)>>

Limb(a, i) == IF i <= Len(a) THEN a[i] ELSE 0

\* a natural of at most two limbs is below 2^30 and is computed with as the
\* integer it is
IsSmall(a) == Len(a) <= 2

SmallNatural(a) ==
    IF Len(a) = 0 THEN 0
    ELSE IF Len(a) = 1 THEN a[1]
    ELSE a[1] + a[2] * Base

CompareAt(a, b, i) == IF a[i] < b[i] THEN -1 ELSE 1

\* -1, 0 or 1 as a is below, equal to or above b
Compare(a, b) ==
    IF Len(a) < Len(b) THEN -1
    ELSE IF Len(a) > Len(b) THEN 1
    ELSE IF IsSmall(a)
    THEN (IF SmallNatural(a) < SmallNatural(b) THEN -1
          ELSE IF SmallNatural(a) > SmallNatural(b) THEN 1
          ELSE 0)
    ELSE IF \A i \in 1..Len(a) : a[i] = b[i] THEN 0
    ELSE CompareAt(a, b, CHOOSE i \in 1..Len(a) :
                             a[i] # b[i] /\ \A j \in (i + 1)..Len(a) : a[j] = b[j])

\* the carry into limb i of a + b: a limb below overflows and all between
\* pass the carry on
CarryInto(a, b, i) ==
    IF \E j \in 1..(i - 1) :
           /\ Limb(a, j) + Limb(b, j) >= Base
           /\ \A k \in (j + 1)..(i - 1) : Limb(a, k) + Limb(b, k) = Base - 1
    THEN 1 ELSE 0

SumOver(a, b, n) ==
    Trimmed(SubSeq([i \in 1..n |-> (Limb(a, i) + Limb(b, i) + CarryInto(a, b, i)) % Base],
                   1, n))

Sum(a, b) ==
    IF IsSmall(a) /\ IsSmall(b) THEN Natural(SmallNatural(a) + SmallNatural(b))
    ELSE SumOver(a, b, Max(Len(a), Len(b)) + 1)

\* the borrow from limb i of a - b
BorrowInto(a, b, i) ==
    IF \E j \in 1..(i - 1) :
           /\ a[j] < Limb(b, j)
           /\ \A k \in (j + 1)..(i - 1) : a[k] = Limb(b, k)
    THEN 1 ELSE 0

\* a - b, for a >= b
Difference(a, b) ==
    IF IsSmall(a) THEN Natural(SmallNatural(a) - SmallNatural(b))
    ELSE Trimmed(SubSeq([i \in 1..Len(a) |->
                            (a[i] - Limb(b, i) - BorrowInto(a, b, i)) % Base],
                        1, Len(a)))

\* a * m, for 0 <= m <= 2^15: the low halves of the products of the limbs
\* plus their high halves one limb up
Scaled(a, m) ==
    IF m = 0 \/ Len(a) = 0 THEN << >>
    ELSE IF m = 1 THEN a
    ELSE IF Len(a) = 1 THEN Natural(a[1] * m)
    ELSE Sum(SubSeq([i \in 1..Len(a) |-> (a[i] * m) % Base], 1, Len(a)),
             <<0>> \o SubSeq([i \in 1..Len(a) |-> (a[i] * m) \div Base], 1, Len(a)))

RECURSIVE PowerMod(_, _, _)
\* b^k modulo d, for b < d <= 2^15
PowerMod(b, k, d) ==
    IF k = 0 THEN 1 % d
    ELSE IF k % 2 = 0 THEN (PowerMod(b, k \div 2, d) * PowerMod(b, k \div 2, d)) % d
    ELSE (PowerMod(b, k - 1, d) * b) % d

RECURSIVE SegmentRemainder(_, _, _, _)
\* the natural of the limbs low..high of a, modulo d: by halves
SegmentRemainder(a, d, low, high) ==
    IF low > high THEN 0
    ELSE IF low = high THEN a[low] % d
    ELSE (SegmentRemainder(a, d, (low + high) \div 2 + 1, high)
              * PowerMod(Base % d, (low + high) \div 2 + 1 - low, d)
          + SegmentRemainder(a, d, low, (low + high) \div 2)) % d

\* a \div d, for 0 < d <= 2^15: limb i of the quotient is what is left of
\* the limbs above it, with limb i, by d
Quotient(a, d) ==
    IF d = 1 THEN a
    ELSE IF IsSmall(a) THEN Natural(SmallNatural(a) \div d)
    ELSE Trimmed(SubSeq([i \in 1..Len(a) |->
                            (SegmentRemainder(a, d, i + 1, Len(a)) * Base + a[i]) \div d],
                        1, Len(a)))

\* a % d, for 0 < d <= 2^15
Remainder(a, d) ==
    IF IsSmall(a) THEN SmallNatural(a) % d ELSE SegmentRemainder(a, d, 1, Len(a))

RECURSIVE ProductFrom(_, _, _)
ProductFrom(a, b, i) ==
    IF i > Len(b) THEN << >>
    ELSE Sum(Scaled(a, b[i]), <<0>> \o ProductFrom(a, b, i + 1))

\* a * b, limb after limb of the shorter of the two
Product(a, b) ==
    IF Len(a) < Len(b) THEN Trimmed(ProductFrom(b, a, 1))
    ELSE Trimmed(ProductFrom(a, b, 1))

Zeros(n) == SubSeq([i \in 1..n |-> 0], 1, n)

\* a * 2^k
ShiftedLeft(a, k) ==
    IF Len(a) = 0 THEN << >>
    ELSE IF k = 0 THEN a
    ELSE Zeros(k \div 15) \o Scaled(a, 2 ^ (k % 15))

ShiftedRightBy(a, limbs, bits) ==
    Trimmed(SubSeq([i \in 1..(Len(a) - limbs) |->
                       a[i + limbs] \div 2 ^ bits
                           + (Limb(a, i + limbs + 1) % 2 ^ bits) * 2 ^ (15 - bits)],
                   1, Len(a) - limbs))

\* a \div 2^k
ShiftedRight(a, k) ==
    IF k \div 15 >= Len(a) THEN << >>
    ELSE IF k = 0 THEN a
    ELSE IF IsSmall(a) THEN Natural(SmallNatural(a) \div 2 ^ k)
    ELSE ShiftedRightBy(a, k \div 15, k % 15)

\* the bit of a that counts 2^k
Bit(a, k) == (Limb(a, k \div 15 + 1) \div 2 ^ (k % 15)) % 2

\* some bit of a below the one that counts 2^k is set
LowBitsNonzero(a, k) ==
    \/ \E i \in 1..Min(k \div 15, Len(a)) : a[i] # 0
    \/ Limb(a, k \div 15 + 1) % 2 ^ (k % 15) # 0

\* the number of bits of a limb
BitLengthOf(n) ==
    IF n < 256
    THEN (IF n < 16
          THEN (IF n < 4 THEN (IF n < 2 THEN n ELSE 2) ELSE IF n < 8 THEN 3 ELSE 4)
          ELSE (IF n < 64 THEN (IF n < 32 THEN 5 ELSE 6) ELSE IF n < 128 THEN 7 ELSE 8))
    ELSE (IF n < 4096
          THEN (IF n < 1024 THEN (IF n < 512 THEN 9 ELSE 10)
                ELSE IF n < 2048 THEN 11 ELSE 12)
          ELSE (IF n < 16384 THEN (IF n < 8192 THEN 13 ELSE 14) ELSE 15))

\* the number of bits of a
BitLength(a) ==
    IF Len(a) = 0 THEN 0 ELSE 15 * (Len(a) - 1) + BitLengthOf(a[Len(a)])

\* the number of zero bits at the low end of a limb that is not zero
TrailingZerosOf(n) ==
    IF n % 2 = 1 THEN 0
    ELSE IF n % 256 # 0
    THEN (IF n % 16 # 0 THEN (IF n % 4 # 0 THEN 1 ELSE IF n % 8 # 0 THEN 2 ELSE 3)
          ELSE (IF n % 64 # 0 THEN (IF n % 32 # 0 THEN 4 ELSE 5)
                ELSE IF n % 128 # 0 THEN 6 ELSE 7))
    ELSE (IF n % 4096 # 0
          THEN (IF n % 1024 # 0 THEN (IF n % 512 # 0 THEN 8 ELSE 9)
                ELSE IF n % 2048 # 0 THEN 10 ELSE 11)
          ELSE (IF n % 16384 # 0 THEN (IF n % 8192 # 0 THEN 12 ELSE 13) ELSE 14))

LowestLimb(a) == CHOOSE i \in 1..Len(a) : a[i] # 0 /\ \A j \in 1..(i - 1) : a[j] = 0

\* the number of zero bits at the low end of a, for a > 0
TrailingZeros(a) ==
    IF a[1] # 0 THEN TrailingZerosOf(a[1])
    ELSE 15 * (LowestLimb(a) - 1) + TrailingZerosOf(a[LowestLimb(a)])

RECURSIVE TimesPow5(_, _)
TimesPow5Again(a, n) == CASE Len(a) >= 0 -> TimesPow5(a, n)

\* a * 5^n: six powers at a time, by halves of n
TimesPow5(a, n) ==
    IF n <= 6 THEN Scaled(a, 5 ^ n)
    ELSE TimesPow5Again(TimesPow5(a, n \div 2), n - n \div 2)

RECURSIVE QuotientPow5(_, _)
QuotientPow5Again(a, n) == CASE Len(a) >= 0 -> QuotientPow5(a, n)

\* a \div 5^n
QuotientPow5(a, n) ==
    IF n <= 6 THEN Quotient(a, 5 ^ n)
    ELSE QuotientPow5Again(QuotientPow5(a, n \div 2), n - n \div 2)

RECURSIVE DigitOf(_, _, _, _)
\* the largest t in low..high with d * t <= a
DigitOf(d, a, low, high) ==
    IF low = high THEN low
    ELSE IF Compare(Scaled(d, (low + high + 1) \div 2), a) <= 0
    THEN DigitOf(d, a, (low + high + 1) \div 2, high)
    ELSE DigitOf(d, a, low, (low + high + 1) \div 2 - 1)

DivModWith(division, d, a, t) ==
    [quotient |-> <<t>> \o division.quotient, remainder |-> Difference(a, Scaled(d, t))]

DivModStep(division, d, a) == DivModWith(division, d, a, DigitOf(d, a, 0, Base - 1))

RECURSIVE DivModFrom(_, _, _)
\* the long division of the limbs i and above of a by d
DivModFrom(a, d, i) ==
    IF i > Len(a) THEN [quotient |-> << >>, remainder |-> << >>]
    ELSE DivModStep(DivModFrom(a, d, i + 1), d,
                    Trimmed(<<a[i]>> \o DivModFrom(a, d, i + 1).remainder))

\* the quotient and the remainder of a by d, for d > 0 of any size
DivMod(a, d) ==
    [quotient |-> Trimmed(DivModFrom(a, d, 1).quotient),
     remainder |-> DivModFrom(a, d, 1).remainder]

RECURSIVE DecimalText(_)
\* the decimal digits of a; the empty text for 0
DecimalText(a) ==
    IF Len(a) = 0 THEN ""
    ELSE IF IsSmall(a) THEN ToString(SmallNatural(a))
    ELSE DecimalText(Quotient(a, 10)) \o ToString(Remainder(a, 10))

RECURSIVE SmallValue(_)
\* the value of at most four decimal digits
SmallValue(text) ==
    IF text = "" THEN 0
    ELSE SmallValue(SubSeq(text, 1, Len(text) - 1)) * 10
             + DigitValue(SubSeq(text, Len(text), Len(text)))

RECURSIVE DigitsValue(_)
\* the natural that a run of decimal digits writes: by halves
DigitsValue(text) ==
    IF Len(text) <= 4 THEN Natural(SmallValue(text))
    ELSE Sum(ShiftedLeft(TimesPow5(DigitsValue(SubSeq(text, 1, Len(text) \div 2)),
                                   Len(text) - Len(text) \div 2),
                         Len(text) - Len(text) \div 2),
             DigitsValue(SubSeq(text, Len(text) \div 2 + 1, Len(text))))

\* ---------------------------------------------------------------------------
\* Numbers: the IEEE 754 binary64 values of the language.  A finite number is
\* (-1)^negative * significand * 2^exponent with an odd significand of at most
\* 53 bits and exponent >= -1074; a zero has the empty significand and
\* exponent 0 and keeps its sign.
\* ---------------------------------------------------------------------------

NaN ==
    [nan |-> TRUE, infinite |-> FALSE, negative |-> FALSE,
     significand |-> << >>, exponent |-> 0]

Infinite(negative) ==
    [nan |-> FALSE, infinite |-> TRUE, negative |-> negative,
     significand |-> << >>, exponent |-> 0]

Infinity == Infinite(FALSE)

Zero(negative) ==
    [nan |-> FALSE, infinite |-> FALSE, negative |-> negative,
     significand |-> << >>, exponent |-> 0]

IsZero(x) == ~x.nan /\ ~x.infinite /\ Len(x.significand) = 0

Reduced(negative, N, e, zeros) ==
    [nan |-> FALSE, infinite |-> FALSE, negative |-> negative,
     significand |-> ShiftedRight(N, zeros), exponent |-> e + zeros]

\* the number N * 2^e, which a double holds exactly
Finite(negative, N, e) ==
    IF Len(N) = 0 THEN Zero(negative)
    ELSE Reduced(negative, N, e, TrailingZeros(N))

\* the double nearest in magnitude: overflow gives Infinity
Bounded(negative, N, e) ==
    IF BitLength(N) + e > 1024 THEN Infinite(negative) ELSE Finite(negative, N, e)

RoundedUp(negative, q, e, up) ==
    Bounded(negative, IF up THEN Sum(q, <<1>>) ELSE q, e)

RoundedBy(negative, N, e, sticky, drop) ==
    IF drop <= 0 THEN Bounded(negative, N, e)
    ELSE RoundedUp(negative, ShiftedRight(N, drop), e + drop,
                   /\ Bit(N, drop - 1) = 1
                   /\ \/ sticky
                      \/ LowBitsNonzero(N, drop - 1)
                      \/ Bit(N, drop) = 1)

\* the double nearest N * 2^e (plus a little when sticky), ties to even
Rounded(negative, N, e, sticky) ==
    IF Len(N) = 0 THEN Zero(negative)
    ELSE RoundedBy(negative, N, e, sticky, Max(BitLength(N) - 53, -1074 - e))

\* the integer n, |n| < 2^31
Integer(n) == Finite(n < 0, Natural(IF n < 0 THEN -n ELSE n), 0)

Negated(x) == IF x.nan THEN x ELSE [x EXCEPT !.negative = ~x.negative]

Abs(x) == IF x.nan THEN x ELSE [x EXCEPT !.negative = FALSE]

\* -1, 0, 1 as the magnitude of finite nonzero x is below, equal to, above y's
CompareAligned(x, y, e) ==
    Compare(ShiftedLeft(x.significand, x.exponent - e),
            ShiftedLeft(y.significand, y.exponent - e))

CompareMagnitude(x, y) ==
    IF BitLength(x.significand) + x.exponent < BitLength(y.significand) + y.exponent
    THEN -1
    ELSE IF BitLength(x.significand) + x.exponent > BitLength(y.significand) + y.exponent
    THEN 1
    ELSE CompareAligned(x, y, Min(x.exponent, y.exponent))

\* x < y
LessThan(x, y) ==
    IF x.nan \/ y.nan THEN FALSE
    ELSE IF x.infinite \/ y.infinite
    THEN (IF x.infinite /\ y.infinite THEN x.negative /\ ~y.negative
          ELSE IF x.infinite THEN x.negative
          ELSE ~y.negative)
    ELSE IF IsZero(x) THEN ~IsZero(y) /\ ~y.negative
    ELSE IF IsZero(y) THEN x.negative
    ELSE IF x.negative # y.negative THEN x.negative
    ELSE IF x.negative THEN CompareMagnitude(x, y) = 1
    ELSE CompareMagnitude(x, y) = -1

PlusSigned(negative, a, b, e) ==
    IF Compare(a, b) = 0 THEN Zero(FALSE)
    ELSE IF Compare(a, b) = 1 THEN Rounded(negative, Difference(a, b), e, FALSE)
    ELSE Rounded(~negative, Difference(b, a), e, FALSE)

PlusAligned(x, y, e) ==
    IF x.negative = y.negative
    THEN Rounded(x.negative,
                 Sum(ShiftedLeft(x.significand, x.exponent - e),
                     ShiftedLeft(y.significand, y.exponent - e)), e, FALSE)
    ELSE PlusSigned(x.negative,
                    ShiftedLeft(x.significand, x.exponent - e),
                    ShiftedLeft(y.significand, y.exponent - e), e)

\* x + y
Plus(x, y) ==
    IF x.nan \/ y.nan THEN NaN
    ELSE IF x.infinite /\ y.infinite
    THEN (IF x.negative = y.negative THEN x ELSE NaN)
    ELSE IF x.infinite THEN x
    ELSE IF y.infinite THEN y
    ELSE IF IsZero(x) /\ IsZero(y) THEN Zero(x.negative /\ y.negative)
    ELSE IF IsZero(x) THEN y
    ELSE IF IsZero(y) THEN x
    ELSE IF BitLength(x.significand) + x.exponent > y.exponent + BitLength(y.significand) + 60
    THEN x
    ELSE IF BitLength(y.significand) + y.exponent > x.exponent + BitLength(x.significand) + 60
    THEN y
    ELSE PlusAligned(x, y, Min(x.exponent, y.exponent))

\* x - y
Minus(x, y) == Plus(x, Negated(y))

\* x * y
Times(x, y) ==
    IF x.nan \/ y.nan THEN NaN
    ELSE IF x.infinite \/ y.infinite
    THEN (IF IsZero(x) \/ IsZero(y) THEN NaN ELSE Infinite(x.negative # y.negative))
    ELSE Rounded(x.negative # y.negative, Product(x.significand, y.significand),
                 x.exponent + y.exponent, FALSE)

DividedLong(negative, division, e) ==
    Rounded(negative, division.quotient, e, Len(division.remainder) # 0)

DividedBy(negative, N, d, e) ==
    IF Len(d) = 1
    THEN Rounded(negative, Quotient(N, d[1]), e, Remainder(N, d[1]) # 0)
    ELSE DividedLong(negative, DivMod(N, d), e)

DividedAt(x, y, shift) ==
    DividedBy(x.negative # y.negative, ShiftedLeft(x.significand, shift),
              y.significand, x.exponent - y.exponent - shift)

\* x / y
Divided(x, y) ==
    IF x.nan \/ y.nan THEN NaN
    ELSE IF x.infinite
    THEN (IF y.infinite THEN NaN ELSE Infinite(x.negative # y.negative))
    ELSE IF y.infinite THEN Zero(x.negative # y.negative)
    ELSE IF IsZero(y)
    THEN (IF IsZero(x) THEN NaN ELSE Infinite(x.negative # y.negative))
    ELSE IF IsZero(x) THEN Zero(x.negative # y.negative)
    ELSE DividedAt(x, y, Max(0, 56 + BitLength(y.significand) - BitLength(x.significand)))

\* Math.max(x, y)
MathMax(x, y) ==
    IF x.nan \/ y.nan THEN NaN
    ELSE IF LessThan(x, y) THEN y
    ELSE IF LessThan(y, x) THEN x
    ELSE IF x.negative THEN y
    ELSE x

\* Math.min(x, y)
MathMin(x, y) ==
    IF x.nan \/ y.nan THEN NaN
    ELSE IF LessThan(x, y) THEN x
    ELSE IF LessThan(y, x) THEN y
    ELSE IF x.negative THEN x
    ELSE y

\* a \div 2^k, one more when a bit is lost
CeilingShifted(a, k) ==
    IF LowBitsNonzero(a, k) THEN Sum(ShiftedRight(a, k), <<1>>) ELSE ShiftedRight(a, k)

MathRoundDown(M, half, k) ==
    IF Compare(M, half) <= 0 THEN Zero(TRUE)
    ELSE Finite(TRUE, CeilingShifted(Difference(M, half), k), 0)

\* Math.round(x): the integer nearest x, a tie to the larger one
MathRound(x) ==
    IF x.nan \/ x.infinite \/ x.exponent >= 0 THEN x
    ELSE IF x.negative
    THEN MathRoundDown(x.significand, ShiftedLeft(<<1>>, -x.exponent - 1), -x.exponent)
    ELSE Finite(FALSE,
                ShiftedRight(Sum(x.significand, ShiftedLeft(<<1>>, -x.exponent - 1)),
                             -x.exponent), 0)

\* !x of a number
IsFalsyNumber(x) == x.nan \/ IsZero(x)

DecimalQuotient(negative, N, quotient, p, shift) ==
    Rounded(negative, quotient, -p - shift, Compare(TimesPow5(quotient, p), N) # 0)

\* the double nearest D * 10^k, for k < 0: N = D * 2^shift is divided by 5^p
DecimalFraction(negative, N, p, shift) ==
    DecimalQuotient(negative, N, QuotientPow5(N, p), p, shift)

\* the double nearest D * 10^k, for a natural D of the given number of digits
Decimal(negative, D, digits, k) ==
    IF Len(D) = 0 THEN Zero(negative)
    ELSE IF digits + k > 310 THEN Infinite(negative)
    ELSE IF digits + k < -330 THEN Zero(negative)
    ELSE IF k >= 0 THEN Rounded(negative, TimesPow5(D, k), k, FALSE)
    ELSE DecimalFraction(negative,
                         ShiftedLeft(D, Max(0, 58 + (-k * 2322) \div 1000 - BitLength(D))),
                         -k,
                         Max(0, 58 + (-k * 2322) \div 1000 - BitLength(D)))

\* the double nearest n thousandths, |n| < 2^31
Double(n) == Decimal(n < 0, Natural(IF n < 0 THEN -n ELSE n), 10, -3)

\* ---------------------------------------------------------------------------
\* parseFloat: the longest prefix of the trimmed text that is a decimal
\* literal, read as the nearest double.
\* ---------------------------------------------------------------------------

CappedDigits(text) == IF Len(text) > 6 THEN 100000 ELSE Min(100000, SmallValue(text))

\* the value of the digits of an exponent; 100000 for all that are above
CappedValue(text) ==
    CappedDigits(SubSeq(text, LeadingCount(text, {"0"}) + 1, Len(text)))

DecimalOf(negative, digits, k) ==
    Decimal(negative, DigitsValue(digits), Len(digits), k)

\* the digits of the literal without the zeros in front, times 10^k
DecimalLiteral(negative, digits, k) ==
    DecimalOf(negative, SubSeq(digits, LeadingCount(digits, {"0"}) + 1, Len(digits)), k)

ExponentOf(text) ==
    IF Len(text) = 0 \/ ~(Head(text) \in {"e", "E"}) THEN 0
    ELSE IF Len(text) >= 2 /\ Head(Tail(text)) \in {"+", "-"}
    THEN (IF Head(Tail(text)) = "-" THEN -1 ELSE 1)
             * CappedValue(SubSeq(Tail(Tail(text)), 1,
                                  LeadingCount(Tail(Tail(text)), Digits)))
    ELSE CappedValue(SubSeq(Tail(text), 1, LeadingCount(Tail(text), Digits)))

FractionOf(negative, text, intLen, fracLen) ==
    IF intLen + fracLen = 0 THEN NaN
    ELSE DecimalLiteral(negative,
                        SubSeq(text, 1, intLen) \o SubSeq(text, intLen + 2, intLen + 1 + fracLen),
                        ExponentOf(SubSeq(text, intLen + 2 + fracLen, Len(text))) - fracLen)

LiteralOf(negative, text, intLen) ==
    IF intLen < Len(text) /\ SubSeq(text, intLen + 1, intLen + 1) = "."
    THEN FractionOf(negative, text, intLen,
                    LeadingCount(SubSeq(text, intLen + 2, Len(text)), Digits))
    ELSE IF intLen = 0 THEN NaN
    ELSE DecimalLiteral(negative, SubSeq(text, 1, intLen),
                        ExponentOf(SubSeq(text, intLen + 1, Len(text))))

Unsigned(negative, text) ==
    IF StartsWith(text, "Infinity") THEN Infinite(negative)
    ELSE LiteralOf(negative, text, LeadingCount(text, Digits))

Signed(text) ==
    IF Len(text) > 0 /\ Head(text) \in {"+", "-"}
    THEN Unsigned(Head(text) = "-", Tail(text))
    ELSE Unsigned(FALSE, text)

parseFloat(text) == Signed(SubSeq(text, LeadingCount(text, WhiteSpace) + 1, Len(text)))

\* ---------------------------------------------------------------------------
\* Number.prototype.toString: the shortest decimal digits that read back as
\* the number.  R counts the magnitude and low and high the rounding interval
\* in units of 2^a; p is the position of the decimal point.
\* ---------------------------------------------------------------------------

\* floor(N * 2^a / 10^q)
FloorScaled(N, a, q) ==
    ShiftedRight(QuotientPow5(ShiftedLeft(TimesPow5(N, Max(-q, 0)), Max(a - q, 0)),
                              Max(q, 0)),
                 Max(q - a, 0))

\* s * 10^q and N * 2^a on one scale
OnGrid(s, a, q) == ShiftedLeft(TimesPow5(s, Max(q, 0)), Max(q - a, 0))

OnScale(N, a, q) == ShiftedLeft(TimesPow5(N, Max(-q, 0)), Max(a - q, 0))

RECURSIVE Magnitude(_, _, _)
MagnitudeAt(R, a, p, lead) ==
    IF Len(lead) = 0 THEN Magnitude(R, a, p - 1)
    ELSE IF Compare(lead, <<10>>) >= 0 THEN Magnitude(R, a, p + 1)
    ELSE p

\* the p with 10^(p-1) <= R * 2^a < 10^p, from an estimate
Magnitude(R, a, p) == MagnitudeAt(R, a, p, FloorScaled(R, a, p - 1))

InInterval(s, low, high, inclusive, a, q) ==
    /\ Compare(OnGrid(s, a, q), OnScale(low, a, q)) >= (IF inclusive THEN 0 ELSE 1)
    /\ Compare(OnGrid(s, a, q), OnScale(high, a, q)) <= (IF inclusive THEN 0 ELSE -1)

\* of s and s + 1 the one nearer R, the even one on a tie
Nearer(s, R, a, q) ==
    IF Compare(OnGrid(Sum(ShiftedLeft(s, 1), <<1>>), a, q),
               ShiftedLeft(OnScale(R, a, q), 1)) = 1
    THEN s
    ELSE IF Compare(OnGrid(Sum(ShiftedLeft(s, 1), <<1>>), a, q),
                    ShiftedLeft(OnScale(R, a, q), 1)) = -1
    THEN Sum(s, <<1>>)
    ELSE IF Limb(s, 1) % 2 = 0 THEN s
    ELSE Sum(s, <<1>>)

RECURSIVE ShortestDigits(_, _, _, _, _, _, _)
ShortestAmong(R, low, high, inclusive, a, p, k, s, lowFits, highFits) ==
    IF lowFits /\ highFits THEN Nearer(s, R, a, p - k)
    ELSE IF lowFits THEN s
    ELSE IF highFits THEN Sum(s, <<1>>)
    ELSE ShortestDigits(R, low, high, inclusive, a, p, k + 1)

ShortestFrom(R, low, high, inclusive, a, p, k, s) ==
    ShortestAmong(R, low, high, inclusive, a, p, k, s,
                  InInterval(s, low, high, inclusive, a, p - k),
                  InInterval(Sum(s, <<1>>), low, high, inclusive, a, p - k))

\* the k-digit natural s with s * 10^(p-k) in the interval, for the least k
ShortestDigits(R, low, high, inclusive, a, p, k) ==
    ShortestFrom(R, low, high, inclusive, a, p, k, FloorScaled(R, a, p - k))

\* the digits and the position n of the point: digits * 10^(n - Len(digits))
Notation(digits, n) ==
    IF Len(digits) <= n /\ n <= 21 THEN digits \o Repeat("0", n - Len(digits))
    ELSE IF 0 < n /\ n <= 21
    THEN SubSeq(digits, 1, n) \o "." \o SubSeq(digits, n + 1, Len(digits))
    ELSE IF -6 < n /\ n <= 0 THEN "0." \o Repeat("0", -n) \o digits
    ELSE SubSeq(digits, 1, 1)
             \o (IF Len(digits) = 1 THEN "" ELSE "." \o SubSeq(digits, 2, Len(digits)))
             \o (IF n - 1 < 0 THEN "e-" ELSE "e+")
             \o (IF n = 1 THEN "0" ELSE DecimalText(Natural(IF n - 1 < 0 THEN 1 - n ELSE n - 1)))

WithoutZeros(digits) == SubSeq(digits, 1, Len(digits) - TrailingCount(digits, {"0"}))

\* the decimal of the digits s found for the position p: its digits and the
\* position of its point; when s is a power of ten the number is 10^p and
\* the point moves by one
ShortestDecimal(digits, p) ==
    [digits |-> WithoutZeros(digits),
     point |-> IF TrailingCount(digits, {"0"}) > 0 THEN p + 1 ELSE p]

ShortestIn(R, low, high, inclusive, a, p) ==
    ShortestDecimal(DecimalText(ShortestDigits(R, low, high, inclusive, a, p, 1)), p)

ShortestOf(R, narrow, inclusive, a, estimate) ==
    ShortestIn(R, Difference(R, IF narrow THEN <<1>> ELSE <<2>>), Sum(R, <<2>>),
               inclusive, a, Magnitude(R, a, estimate))

Shortest(M, e, top, ulp) ==
    ShortestOf(ShiftedLeft(M, e - ulp + 2),
               M = <<1>> /\ top > -1022,
               e > ulp,
               ulp - 2,
               (top * 30103) \div 100000 + 1)

\* the natural nearest M * 2^e * 1000, for e < 0
NearestThousandths(M, e) ==
    ShiftedRight(Sum(ShiftedLeft(Scaled(M, 125), 3), ShiftedLeft(<<1>>, -e - 1)), -e)

\* the decimal of an integer: its own digits
DecimalOfInteger(digits) ==
    [digits |-> WithoutZeros(digits), point |-> Len(digits)]

\* the decimal n / 1000 of the digits of n
DecimalOfThousandths(digits) ==
    [digits |-> WithoutZeros(digits), point |-> Len(digits) - 3]

ShortestOfFraction(x, n) ==
    IF Len(n) > 0 /\ Abs(x) = Decimal(FALSE, n, 10, -3)
    THEN DecimalOfThousandths(DecimalText(n))
    ELSE Shortest(x.significand, x.exponent,
                  BitLength(x.significand) + x.exponent - 1,
                  Max(BitLength(x.significand) + x.exponent - 53, -1074))

\* the shortest decimal that reads back as the finite number x, not zero.
\* A decimal of at most 15 digits is the shortest one of the double nearest
\* it, so an integer below 2^53 is written with its own digits and the
\* double nearest n / 1000, n < 2^30, with those of n / 1000; the digits of
\* any other number are searched for.
ShortestOfNumber(x) ==
    IF x.exponent >= 0 /\ BitLength(x.significand) + x.exponent <= 53
    THEN DecimalOfInteger(DecimalText(ShiftedLeft(x.significand, x.exponent)))
    ELSE IF x.exponent < 0 /\ BitLength(x.significand) + x.exponent <= 20
                           /\ BitLength(x.significand) + x.exponent >= -11
    THEN ShortestOfFraction(x, NearestThousandths(x.significand, x.exponent))
    ELSE Shortest(x.significand, x.exponent,
                  BitLength(x.significand) + x.exponent - 1,
                  Max(BitLength(x.significand) + x.exponent - 53, -1074))

Notated(decimal) == Notation(decimal.digits, decimal.point)

\* String(x) of a number
toString(x) ==
    IF x.nan THEN "NaN"
    ELSE IF x.infinite THEN (IF x.negative THEN "-Infinity" ELSE "Infinity")
    ELSE IF IsZero(x) THEN "0"
    ELSE (IF x.negative THEN "-" ELSE "") \o Notated(ShortestOfNumber(x))

\* ---------------------------------------------------------------------------
\* Number.prototype.toFixed(2)
\* ---------------------------------------------------------------------------

\* the natural nearest M * 2^e * 100, a tie to the larger one
Hundredths(M, e) ==
    IF e + 2 >= 0 THEN ShiftedLeft(Scaled(M, 25), e + 2)
    ELSE ShiftedRight(Sum(Scaled(M, 25), ShiftedLeft(<<1>>, -(e + 2) - 1)), -(e + 2))

\* 10^21, from which toFixed writes as toString does
TenTo21 == Decimal(FALSE, <<1>>, 1, 21)

FixedOf(digits) ==
    SubSeq(digits, 1, Len(digits) - 2) \o "." \o SubSeq(digits, Len(digits) - 1, Len(digits))

FixedText(digits) == FixedOf(Repeat("0", 3 - Len(digits)) \o digits)

toFixed(x) ==
    IF x.nan THEN "NaN"
    ELSE IF x.infinite \/ ~LessThan(Abs(x), TenTo21) THEN toString(x)
    ELSE (IF x.negative /\ ~IsZero(x) THEN "-" ELSE "")
             \o FixedText(DecimalText(Hundredths(x.significand, x.exponent)))

\* ---------------------------------------------------------------------------
\* Decimal subtraction, as a ledger of decimal balances does it: of the
\* shortest decimals of x and y, for finite x >= y >= 0.
\* ---------------------------------------------------------------------------

\* the natural digits * 10^zeros
DecimalNatural(digits, zeros) ==
    ShiftedLeft(TimesPow5(DigitsValue(digits), zeros), zeros)

DecimalResult(D, q) == Decimal(FALSE, D, Len(DecimalText(D)), q)

DecimalAligned(dx, dy, q) ==
    DecimalResult(Difference(DecimalNatural(dx.digits, dx.point - Len(dx.digits) - q),
                             DecimalNatural(dy.digits, dy.point - Len(dy.digits) - q)),
                  q)

DecimalBetween(dx, dy) ==
    DecimalAligned(dx, dy, Min(dx.point - Len(dx.digits), dy.point - Len(dy.digits)))

\* the double nearest the decimal x - y
DecimalDifference(x, y) ==
    IF IsZero(y) THEN x
    ELSE IF x = y THEN Zero(FALSE)
    ELSE DecimalBetween(ShortestOfNumber(x), ShortestOfNumber(y))

(* ------------------------------ bounds -------------------------------- *)

\* number of processDeposit calls in one behaviour
MaxCalls == 2

\* number of requests in one behaviour that are answered without a call of
\* processDeposit: queries, checkout requests, deliveries that settle nothing
MaxRequests == 2

\* two addresses, as the checkout form accepts them
WalletA == "0xaaaaaaaaaaaaaaaaaaaaaaaaaaaaaaaaaaaaaaaa"
WalletB == "0xbbbbbbbbbbbbbbbbbbbbbbbbbbbbbbbbbbbbbbbb"

\* the payment-completed events: session, destination and amount
Events == {[sessionId |-> "sess_1", walletAddress |-> WalletA, amount |-> Double(80000)],
           [sessionId |-> "sess_2", walletAddress |-> WalletB, amount |-> Double(30000)]}

\* the amounts are written by their thousandths: Double(80000) is the
\* double 80, Double(25210) the double nearest 25.21

\* the event of a paid session of 10.10 that carries no payment intent
\* (stripeController.js 280 and 293-295), and with it the events the
\* webhook settles
EventWithoutIntent ==
    [sessionId |-> "sess_4", walletAddress |-> WalletB, amount |-> Double(10100)]
WebhookEvents == Events \cup {EventWithoutIntent}

\* payments of 25.21 and of 40: as doubles 25.21 + 40 is 65.21000000000001,
\* 100 - 25.21 is 74.78999999999999, 100 - 65.21000000000001 is
\* 34.78999999999999, 39 + 25.21 is 64.21000000000001, and 39 + 25.21 - 5
\* is 59.21000000000001 where 39 - 5 + 25.21 is 59.21
DecimalEvents ==
    {[sessionId |-> "sess_5", walletAddress |-> WalletA, amount |-> Double(25210)],
     [sessionId |-> "sess_6", walletAddress |-> WalletB, amount |-> Double(40000)]}

\* the sessions of these events
Sessions == {ev.sessionId : ev \in WebhookEvents \cup DecimalEvents}

\* the arguments of direct calls of incrementTotalOnrampedAmount
IncrementArgs == {Double(-5000)}

\* session sess_1 settled, and settled again with another destination and
\* another amount: processDeposit called with arguments that differ from
\* the stored transaction's; and calls with a destination that is no
\* address and with an amount below the minimum of the transfer
DirectCalls ==
    {[sessionId |-> "sess_1", walletAddress |-> WalletA, amount |-> Double(80000)],
     [sessionId |-> "sess_1", walletAddress |-> WalletB, amount |-> Double(30000)],
     [sessionId |-> "sess_2", walletAddress |-> "0xB", amount |-> Double(30000)],
     [sessionId |-> "sess_2", walletAddress |-> WalletB, amount |-> Double(4000)]}

\* the values of WALLET_PRIVATE_KEY the process is started with: a key, and
\* the variable not set (src/src/config/config.js 20 then gives '')
ConfiguredKey == "0x0123456789abcdef0123456789abcdef0123456789abcdef0123456789abcdef"
WalletPrivateKeys == {ConfiguredKey, ""}

\* withdrawable balance of the operator at the venue when the process starts
InitialBalances == {Double(100000), Double(30000), Double(0)}

\* Date.now() when the process starts
StartTimes == {100000}

\* the later readings of Date.now(): 20 s after the start (within the cache
\* time-to-live), and 24 h after that (beyond the time-to-live; the age of
\* a transaction created at the start exceeds the retention, the age of one
\* created 20 s later equals it)
ClockReadings == {120000, 86520000}

\* the messages the request of the transfer fails with, and with
\* new Error('') among them
TransferErrors == {"UpstreamRejected"}
RequestErrors == TransferErrors \cup {""}

\* the message getHyperliquidBalance fails with
BalanceErrors == {"Failed to get balance from Hyperliquid API"}

\* the messages stripe.refunds.create fails with
RefundErrors == {"charge_already_refunded"}

\* the sessionId parameters of the status query: a session of Events, one
\* that never paid, a blank one (a space, a vertical tab U+000B and a
\* space) and one with angle brackets
QueriedSessions == {"sess_1", "sess_3", "  ", "<sess_1>"}

\* the value of STRIPE_WEBHOOK_SECRET, and the other texts of a delivery
\* that the server accepts
WebhookSecret == "whsec_1"
CheckoutSessionCompleted == "checkout.session.completed"
Paid == "paid"

\* a value of a JSON request body: a number, a text, or a field that is
\* missing
JsonNumber(n) == [type |-> "number", number |-> n, text |-> ""]
JsonString(text) == [type |-> "string", number |-> Zero(FALSE), text |-> text]
JsonUndefined == [type |-> "undefined", number |-> Zero(FALSE), text |-> ""]

\* the bodies of the checkout requests: the amounts 0, 4.994, 4.995, 5.015,
\* 80 and 2500.005 for an address, the amount 80 without an address and
\* with a text that is no address, and the amount as the text "80".  The
\* double 4.995 * 100 is rounded up to 500 cents, 5.015 * 100 down to 501.
CheckoutRequests ==
    {[amount |-> JsonNumber(Double(a)), walletAddress |-> JsonString(WalletA)] :
         a \in {0, 4994, 4995, 5015, 80000, 2500005}}
    \cup {[amount |-> JsonNumber(Double(80000)), walletAddress |-> JsonUndefined],
          [amount |-> JsonNumber(Double(80000)),
           walletAddress |-> JsonString("0xA")],
          [amount |-> JsonString("80"), walletAddress |-> JsonString(WalletA)]}

\* the messages stripe.checkout.sessions.create fails with
SessionErrors == {"api_connection_error"}

\* maxAgeHours arguments of cleanupOldTransactions
MaxAgeHoursArgs == {24}

(* ----------------------------- constants ------------------------------ *)

\* const cacheExpiry = 30 * 1000
cacheExpiry == 30 * 1000

\* if (amount < 5) throw new Error('Minimum deposit amount is 5 USDC')
MinDeposit == 5

\* stripeController.js 22-23
MAX_AMOUNT_USD_CENTS == 250000
MIN_AMOUNT_USD_CENTS == 500

\* maxAgeHours * 60 * 60 * 1000
maxAgeMs(maxAgeHours) == maxAgeHours * 60 * 60 * 1000

(* ------------------------------ values -------------------------------- *)

\* a field that is undefined in the JavaScript object
Undefined == "undefined"

\* error messages: the text is determined by kind and the two numbers
\* (Zero(FALSE) where the text has none)
ErrorMessage(kind, required, available) ==
    [kind |-> kind, required |-> required, available |-> available]

NoError == ErrorMessage(Undefined, Zero(FALSE), Zero(FALSE))

\* `Insufficient balance for onramp. Required: ${amount} USDC, Available: ${availableForOnramp} USDC`
InsufficientBalance(amount, available) ==
    ErrorMessage("Insufficient balance for onramp", amount, available)

\* 'Transaction failed'
TransactionFailed == ErrorMessage("Transaction failed", Zero(FALSE), Zero(FALSE))

\* error instanceof Error ? error.message : 'Unknown error'
ThrownMessage(e) == ErrorMessage(e, Zero(FALSE), Zero(FALSE))

\* part_005 (hyperliquidService) 85, 135: the reference of a transfer,
\* ethers.utils.id(`${wallet.address}-${destinationAddress}-${amount}-${timestamp}`),
\* an injective function of destination, amount and time
TxHash(destinationAddress, amount, timestamp) ==
    [destination |-> destinationAddress, amount |-> amount, time |-> timestamp]

NoTxHash == TxHash(Undefined, Zero(FALSE), 0)

\* the lookup's result when no transaction matches
NoTx == [id |-> 0, walletAddress |-> Undefined, amount |-> Zero(FALSE),
         status |-> Undefined, createdAt |-> 0, updatedAt |-> 0,
         stripeSessionId |-> Undefined, txHash |-> NoTxHash,
         error |-> NoError]

\* the value a call returns; NoResult while it has not returned
NoResult == [success |-> FALSE, txHash |-> NoTxHash, error |-> NoError,
             pendingTxId |-> 0, returned |-> FALSE]

Result(success, txHash, error, pendingTxId) ==
    [success |-> success, txHash |-> txHash, error |-> error,
     pendingTxId |-> pendingTxId, returned |-> TRUE]

\* stripeController.js 280-283: session.payment_intent, the capture of the
\* session's payment, the same in every delivery of the session.  The
\* sessions createCheckoutSession makes are of mode 'payment' (line 125)
\* and carry one when they are paid; the webhook takes the event of any
\* session of the account, and sess_4 carries none.
payment_intent(sessionId) ==
    IF sessionId = "sess_1" THEN "pi_1"
    ELSE IF sessionId = "sess_2" THEN "pi_2"
    ELSE IF sessionId = "sess_5" THEN "pi_5"
    ELSE IF sessionId = "sess_6" THEN "pi_6"
    ELSE Undefined

(* ------------------------------- state -------------------------------- *)

VARIABLES
    pendingTransactions, \* the Map, as the sequence of its values in insertion order
    nextId,              \* the next fresh transaction id
    lastBalanceCheck,    \* the balance cache
    now,                 \* Date.now()
    withdrawable,        \* the operator's withdrawable balance at the venue,
                         \* as parseFloat reads it (part_005 45)
    walletPrivateKey,    \* config.js 20: the value of WALLET_PRIVATE_KEY, the
                         \* empty text when the variable is not set
    calls,               \* the processDeposit calls, in the order they started
    purged,              \* ids deleted from the ledger
    totalOnrampedAmount, \* part_005 183: the total amount onramped
    requests             \* the requests to the endpoints of stripeRoutes.js,
                         \* in the order they arrived (the specifications of
                         \* the settlement alone keep its deliveries in
                         \* `calls` only)

vars == <<pendingTransactions, nextId, lastBalanceCheck, now, withdrawable,
          walletPrivateKey, totalOnrampedAmount, calls, purged, requests>>

(* ----------------------- the Transaction Ledger ------------------------ *)

Statuses == {"pending", "processing", "completed", "failed"}

RECURSIVE calculatePendingAmount_PendingOnly(_)
\* calculatePendingAmount counting the status 'pending' only
calculatePendingAmount_PendingOnly(txs) ==
    IF txs = <<>> THEN Double(0)
    ELSE LET last == txs[Len(txs)]
             pendingAmount ==
                 calculatePendingAmount_PendingOnly(SubSeq(txs, 1, Len(txs) - 1))
         IN  IF last.status = "pending"
             THEN Plus(pendingAmount, last.amount)
             ELSE pendingAmount

RECURSIVE calculatePendingAmount(_)
\* onrampService.js 80-89: let pendingAmount = 0, and pendingAmount +=
\* tx.amount for each pending and processing transaction, in the Map's
\* iteration order
calculatePendingAmount(txs) ==
    IF txs = <<>> THEN Double(0)
    ELSE LET last == txs[Len(txs)]
             pendingAmount == calculatePendingAmount(SubSeq(txs, 1, Len(txs) - 1))
         IN  IF last.status = "pending" \/ last.status = "processing"
             THEN Plus(pendingAmount, last.amount)
             ELSE pendingAmount

\* onrampService.js 93-106: a new transaction, status 'pending', appended
createPendingTransaction(txs, id, stripeSessionId, walletAddress, amount, t) ==
    Append(txs, [id |-> id, walletAddress |-> walletAddress, amount |-> amount,
                 status |-> "pending", createdAt |-> t, updatedAt |-> t,
                 stripeSessionId |-> stripeSessionId, txHash |-> NoTxHash,
                 error |-> NoError])

RECURSIVE getPendingTransactionBySessionId(_, _)
\* onrampService.js 110-117: the first transaction of the session, in the
\* Map's iteration (insertion) order; NoTx for undefined
getPendingTransactionBySessionId(txs, sessionId) ==
    IF txs = <<>> THEN NoTx
    ELSE IF Head(txs).stripeSessionId = sessionId THEN Head(txs)
    ELSE getPendingTransactionBySessionId(Tail(txs), sessionId)

\* updatePendingTransaction refusing to change a completed or failed
\* transaction
updatePendingTransaction_KeepsSettled(txs, id, updates, t) ==
    [i \in 1..Len(txs) |->
        IF txs[i].id = id /\ txs[i].status \notin {"completed", "failed"}
        THEN [f \in DOMAIN txs[i] |->
                 IF f = "updatedAt" THEN t
                 ELSE IF f \in DOMAIN updates THEN updates[f]
                 ELSE txs[i][f]]
        ELSE txs[i]]

\* updatePendingTransaction writing the updates to every transaction
updatePendingTransaction_IgnoresId(txs, id, updates, t) ==
    [i \in 1..Len(txs) |->
        [f \in DOMAIN txs[i] |->
            IF f = "updatedAt" THEN t
            ELSE IF f \in DOMAIN updates THEN updates[f]
            ELSE txs[i][f]]]

\* updatePendingTransaction stamping createdAt as well
updatePendingTransaction_StampsCreatedAt(txs, id, updates, t) ==
    [i \in 1..Len(txs) |->
        IF txs[i].id = id
        THEN [f \in DOMAIN txs[i] |->
                 IF f = "updatedAt" \/ f = "createdAt" THEN t
                 ELSE IF f \in DOMAIN updates THEN updates[f]
                 ELSE txs[i][f]]
        ELSE txs[i]]

\* onrampService.js 157-165: {...transaction, ...updates, updatedAt: new Date()};
\* an id that is not in the Map changes nothing.  Map.set on a present key
\* keeps the entry's place in the iteration order.
updatePendingTransaction(txs, id, updates, t) ==
    [i \in 1..Len(txs) |->
        IF txs[i].id = id
        THEN [f \in DOMAIN txs[i] |->
                 IF f = "updatedAt" THEN t
                 ELSE IF f \in DOMAIN updates THEN updates[f]
                 ELSE txs[i][f]]
        ELSE txs[i]]

\* IsPurgeable without the test of the status
IsPurgeable_AgeOnly(tx, t, maxAgeHours) ==
    t - tx.createdAt > maxAgeMs(maxAgeHours)

\* onrampService.js 307: what the sweep deletes
IsPurgeable(tx, t, maxAgeHours) ==
    /\ (tx.status = "completed" \/ tx.status = "failed")
    /\ t - tx.createdAt > maxAgeMs(maxAgeHours)

RECURSIVE cleanupOldTransactions(_, _, _)
\* onrampService.js 170-172: pendingTransactions.delete(id), whatever the
\* status and the age of the transaction
deletePendingTransaction(txs, id) == SelectSeq(txs, LAMBDA tx : tx.id # id)

\* onrampService.js 171: what Map.delete returns, whether the ledger held
\* the transaction
deletePendingTransactionReturns(txs, id) ==
    \E i \in 1..Len(txs) : txs[i].id = id

\* onrampService.js 301-311: the ledger after the sweep
cleanupOldTransactions(txs, t, maxAgeHours) ==
    IF txs = <<>> THEN <<>>
    ELSE IF IsPurgeable(Head(txs), t, maxAgeHours)
         THEN cleanupOldTransactions(Tail(txs), t, maxAgeHours)
         ELSE <<Head(txs)>> \o cleanupOldTransactions(Tail(txs), t, maxAgeHours)

(* ------------------------- the Balance Oracle ------------------------- *)

\* CacheIsFresh without the test of the age
CacheIsFresh_IgnoresAge(t, cache) == LessThan(Double(0), cache.balance)

\* onrampService.js 42: the cached balance is used
CacheIsFresh(t, cache) ==
    t - cache.timestamp < cacheExpiry /\ LessThan(Double(0), cache.balance)

\* onrampService.js 43-44, 62-63: Math.max(0, balance - pendingAmount)
availableForOnramp(balance, txs) ==
    MathMax(Double(0), Minus(balance, calculatePendingAmount(txs)))

(* ------------------------- the Transfer Client ------------------------ *)

\* the characters of /[0-9a-fA-F]/
HexDigits ==
    {"0", "1", "2", "3", "4", "5", "6", "7", "8", "9",
     "a", "b", "c", "d", "e", "f", "A", "B", "C", "D", "E", "F"}

\* the text matches /^[0-9a-fA-F]{40}$/
IsHex40(text) ==
    /\ Len(text) = 40
    /\ \A i \in 1..40 : SubSeq(text, i, i) \in HexDigits

\* the text has letters of both cases: /([A-F].*[a-f])|([a-f].*[A-F])/
IsMixedCase(text) ==
    /\ \E i \in 1..Len(text) : SubSeq(text, i, i) \in {"a", "b", "c", "d", "e", "f"}
    /\ \E i \in 1..Len(text) : SubSeq(text, i, i) \in {"A", "B", "C", "D", "E", "F"}

LowerLetters == "abcdefghijklmnopqrstuvwxyz"

UpperLetters == "ABCDEFGHIJKLMNOPQRSTUVWXYZ"

\* the place of a character in a text that holds it
PlaceIn(ch, text) == CHOOSE i \in 1..Len(text) : SubSeq(text, i, i) = ch

IsLower(ch) == \E i \in 1..26 : SubSeq(LowerLetters, i, i) = ch

IsUpper(ch) == \E i \in 1..26 : SubSeq(UpperLetters, i, i) = ch

\* String.prototype.toLowerCase and toUpperCase, of one character of
\* [0-9A-Za-z]
toLowerCase(ch) ==
    IF IsUpper(ch)
    THEN LET i == PlaceIn(ch, UpperLetters) IN SubSeq(LowerLetters, i, i)
    ELSE ch

toUpperCase(ch) ==
    IF IsLower(ch)
    THEN LET i == PlaceIn(ch, LowerLetters) IN SubSeq(UpperLetters, i, i)
    ELSE ch

\* String.prototype.charCodeAt of one character of [0-9a-z]
charCodeAt(ch) ==
    IF ch \in Digits THEN 48 + DigitValue(ch)
    ELSE 96 + PlaceIn(ch, LowerLetters)

\* keccak256, the hash of ethers' getChecksumAddress.  The state of the
\* permutation Keccak-f[1600] is held by its 1600 bits: bit z of the lane
\* (x, y) is at place 64 * (5 * y + x) + z + 1.

\* the rotation of lane (x, y), at place 5 * y + x + 1
RotationOffsets ==
    << 0,  1, 62, 28, 27,
      36, 44,  6, 55, 20,
       3, 10, 43, 25, 39,
      41, 45, 15, 21,  8,
      18,  2, 61, 56, 14>>

\* the bits that are set in the constant of each of the 24 rounds
RoundConstants ==
    <<{0}, {1, 7, 15}, {1, 3, 7, 15, 63}, {15, 31, 63}, {0, 1, 3, 7, 15},
      {0, 31}, {0, 7, 15, 31, 63}, {0, 3, 15, 63}, {1, 3, 7}, {3, 7},
      {0, 3, 15, 31}, {1, 3, 31}, {0, 1, 3, 7, 15, 31}, {0, 1, 3, 7, 63},
      {0, 3, 7, 15, 63}, {0, 1, 15, 63}, {1, 15, 63}, {7, 63}, {1, 3, 15},
      {1, 3, 31, 63}, {0, 7, 15, 31, 63}, {7, 15, 63}, {0, 31},
      {3, 15, 31, 63}>>

\* the step theta: every bit is added to the parities of two columns
Theta(A) ==
    LET C == SubSeq([i \in 1..320 |->
                        (A[i] + A[i + 320] + A[i + 640] + A[i + 960]
                              + A[i + 1280]) % 2], 1, 320)
        D == SubSeq([i \in 1..320 |->
                        LET x == (i - 1) \div 64
                            z == (i - 1) % 64
                        IN  (C[64 * ((x + 4) % 5) + z + 1]
                             + C[64 * ((x + 1) % 5) + ((z + 63) % 64) + 1]) % 2],
                    1, 320)
    IN  SubSeq([i \in 1..1600 |-> (A[i] + D[((i - 1) % 320) + 1]) % 2],
               1, 1600)

\* the steps rho and pi: lane (x, y), rotated by its offset, becomes lane
\* (y, 2x + 3y)
RhoPi(A) ==
    SubSeq([i \in 1..1600 |->
               LET lane == (i - 1) \div 64
                   z == (i - 1) % 64
                   y == lane % 5
                   x == (y + 3 * (lane \div 5)) % 5
               IN  A[64 * (5 * y + x)
                     + ((z + 64 - RotationOffsets[5 * y + x + 1]) % 64) + 1]],
           1, 1600)

\* the step chi: a bit is flipped where the next bit of its row is 0 and
\* the one after is 1
Chi(B) ==
    SubSeq([i \in 1..1600 |->
               LET lane == (i - 1) \div 64
                   z == (i - 1) % 64
                   x == lane % 5
                   row == 5 * (lane \div 5)
               IN  (B[i] + (1 - B[64 * (row + ((x + 1) % 5)) + z + 1])
                             * B[64 * (row + ((x + 2) % 5)) + z + 1]) % 2],
           1, 1600)

\* the step iota: the constant of the round is added to lane (0, 0)
Iota(A, round) ==
    SubSeq([i \in 1..1600 |->
               IF i <= 64 /\ (i - 1) \in RoundConstants[round]
               THEN 1 - A[i] ELSE A[i]],
           1, 1600)

RECURSIVE KeccakF(_, _)
\* the rounds of the permutation from this round on
KeccakF(A, round) ==
    IF round > 24 THEN A
    ELSE LET next == Iota(Chi(RhoPi(Theta(A))), round)
         IN  CASE Len(next) = 1600 -> KeccakF(next, round + 1)

\* keccak256 of the forty characters, as the bits of the state after the
\* one block they fill: the character codes, the padding 0x01 ... 0x80 up
\* to the rate of 136 bytes, and the permutation
keccak256(chars) ==
    KeccakF(SubSeq([i \in 1..1600 |->
                       LET k == (i - 1) \div 8
                           byte == IF k < 40 THEN charCodeAt(chars[k + 1])
                                   ELSE IF k = 40 THEN 1
                                   ELSE IF k = 135 THEN 128
                                   ELSE 0
                       IN  (byte \div Pow2((i - 1) % 8)) % 2],
                   1, 1600), 1)

RECURSIVE Joined(_, _)
\* the first n of the characters, as a text
Joined(chars, n) == IF n = 0 THEN "" ELSE Joined(chars, n - 1) \o chars[n]

\* ethers' getChecksumAddress of forty hexadecimal digits: the digits in
\* lower case, a letter made a capital where the nibble at its place in
\* keccak256 of the lower-case digits is 8 or more (the high nibble of byte
\* i >> 1 for an even i, the low one for an odd i)
getChecksumAddress(digits) ==
    LET chars == [i \in 1..40 |-> toLowerCase(SubSeq(digits, i, i))]
        hashed == keccak256(chars)
    IN  Joined([i \in 1..40 |->
                   IF hashed[8 * ((i - 1) \div 2)
                             + (IF i % 2 = 1 THEN 7 ELSE 3) + 1] = 1
                   THEN toUpperCase(chars[i]) ELSE chars[i]], 40)

\* the text matches /^XE[0-9]{2}[0-9A-Za-z]{30,31}$/, an ICAP address
IsIcap(text) ==
    /\ Len(text) \in {34, 35}
    /\ SubSeq(text, 1, 2) = "XE"
    /\ \A i \in 3..4 : SubSeq(text, i, i) \in Digits
    /\ \A i \in 5..Len(text) :
           LET ch == SubSeq(text, i, i)
           IN  ch \in Digits \/ IsLower(ch) \/ IsUpper(ch)

\* the value of a character as a digit of base 36
Base36Value(ch) ==
    IF ch \in Digits THEN DigitValue(ch)
    ELSE IF IsUpper(ch) THEN 9 + PlaceIn(ch, UpperLetters)
    ELSE 9 + PlaceIn(ch, LowerLetters)

RECURSIVE Mod97(_, _)
\* the remainder modulo 97 of the decimal number made of r and then the
\* values of the characters in base 36, written in decimal one after the
\* other
Mod97(text, r) ==
    IF text = "" THEN r
    ELSE LET v == Base36Value(Head(text))
         IN  Mod97(Tail(text),
                   IF v < 10 THEN (10 * r + v) % 97 ELSE (100 * r + v) % 97)

\* ethers' ibanChecksum of an ICAP address: 98 less the remainder of its
\* characters after the fourth, then XE and 00
ibanChecksum(text) == 98 - Mod97(SubSeq(text, 5, Len(text)) \o "XE00", 0)

\* 2^160 in base 36
TwoTo160 == "TWJ4YIDKW7A8PN4G709KZMFOAOL3X8G"

RECURSIVE Base36Below(_, _)
\* of two texts of the same length, the number the first is in base 36 is
\* below the number the second is
Base36Below(a, b) ==
    IF a = "" THEN FALSE
    ELSE LET x == Base36Value(Head(a))
             y == Base36Value(Head(b))
         IN  x < y \/ (x = y /\ Base36Below(Tail(a), Tail(b)))

\* part_005 (hyperliquidService) 67: ethers.utils.isAddress, true when
\* getAddress does not throw.  A text that matches /^(0x)?[0-9a-fA-F]{40}$/
\* is an address unless it has letters of both cases and is not spelled as
\* getChecksumAddress spells it.  An ICAP address is an address when its
\* two check digits are its ibanChecksum and its number has no more than
\* forty hexadecimal digits, that is, lies below 2^160.
isAddress(text) ==
    LET digits == IF Len(text) >= 2 /\ SubSeq(text, 1, 2) = "0x"
                  THEN SubSeq(text, 3, Len(text))
                  ELSE text
        body == SubSeq(text, 5, Len(text))
    IN  \/ /\ IsHex40(digits)
           /\ IsMixedCase(digits) => getChecksumAddress(digits) = digits
        \/ /\ IsIcap(text)
           /\ SmallValue(SubSeq(text, 3, 4)) = ibanChecksum(text)
           /\ Len(body) = 30 \/ Base36Below(body, TwoTo160)

\* part_005 (hyperliquidService) 70: if (amount < 5)
BelowMinimum(amount) == LessThan(amount, Integer(MinDeposit))

\* part_005 (hyperliquidService) 80: if (usdBalance < amount)
ExceedsVenueBalance(usdBalance, amount) == LessThan(usdBalance, amount)

\* `Insufficient balance. Required: ${amount} USDC, Available: ${usdBalance} USDC`
InsufficientVenueBalance(amount, usdBalance) ==
    ErrorMessage("Insufficient balance", amount, usdBalance)

\* `Failed to send USDC: ${JSON.stringify(response.data)}`
FailedToSend == ErrorMessage("Failed to send USDC", Zero(FALSE), Zero(FALSE))

\* part_005 (hyperliquidService) 28 and 73: if (!config.walletPrivateKey)
IsNotConfigured(key) == key = ""

\* part_005 (hyperliquidService) 29 and 74:
\* throw new Error('Wallet private key not configured')
KeyNotConfigured == "Wallet private key not configured"

\* part_005 (hyperliquidService) 62-79: depositUsdcToHyperliquid up to its
\* first await.  With a destination that is no address, an amount below
\* the minimum or no key it throws before it awaits, and its promise is
\* rejected;
\* otherwise it asks the venue for the balance (line 79).
\*   at   "rejected"  the promise is rejected with `thrown`
\*        "info"      awaiting getHyperliquidBalance, line 79
\*        "exchange"  awaiting the signature (line 108) and then POST
\*                    /exchange (lines 112-127); the signing reads and
\*                    writes nothing another step sees
depositUsdcToHyperliquid(call) ==
    IF ~isAddress(call.destinationAddress)
    THEN [call EXCEPT !.at = "rejected",
                      !.thrown = ThrownMessage("Invalid destination address")]
    ELSE IF BelowMinimum(call.amount)
    THEN [call EXCEPT !.at = "rejected",
                      !.thrown = ThrownMessage("Minimum deposit amount is 5 USDC")]
    ELSE IF IsNotConfigured(walletPrivateKey)
    THEN [call EXCEPT !.at = "rejected",
                      !.thrown = ThrownMessage(KeyNotConfigured)]
    ELSE [call EXCEPT !.at = "info"]

\* part_005 (hyperliquidService) 62-146: what the awaited
\* depositUsdcToHyperliquid can throw where it stands, the venue holding
\* usdBalance: the error it was rejected with; at line 79 an error of
\* getHyperliquidBalance, or the refusal of line 80-82; at lines 108-127 an
\* error of the request, whether the venue has executed the transfer or not,
\* or, the venue not having executed it, the refusal of line 139
Throwable(call, usdBalance, requestErrors) ==
    IF call.at = "rejected" THEN {call.thrown}
    ELSE IF call.at = "info"
    THEN {ThrownMessage(e) : e \in BalanceErrors}
         \cup (IF ExceedsVenueBalance(usdBalance, call.amount)
               THEN {InsufficientVenueBalance(call.amount, usdBalance)}
               ELSE {})
    ELSE {ThrownMessage(e) : e \in requestErrors}
         \cup (IF call.executed THEN {} ELSE {FailedToSend})

(* -------------------------- processDeposit ----------------------------- *)

\* the frame of a processDeposit call: its arguments, the place it is
\* suspended at, its locals, and what it has done so far
\*   pc                 "awaitFetch"    in getWalletBalance, at line 53
\*                      "awaitBalance"  at line 235
\*                      "awaitTransfer" at line 207 or 256
\*                      "returned"
\*   path               "replay" (lines 187-200), "existing" (201-232),
\*                      "new" (234-279)
\*   transfers          the calls of depositUsdcToHyperliquid it has made
\*   at, thrown         where the depositUsdcToHyperliquid it awaits stands
\*   timestamp          Date.now() read at part_005 85, before the request
\*   executed           the venue has moved the funds of its request
\*   fetchFailed        getHyperliquidBalance threw in it
\*   overlapping        an earlier call for the same session was suspended
\*                      when it started
\*   balance, pendingAmount   what getWalletBalance returned with
\*                      availableForOnramp (dropped at line 235)
\*   fromCache          getWalletBalance returned it at lines 43-50
\*                      (dropped with them)
\* and of the handleWebhook call that made it:
\*   handler            "awaitDeposit"  at stripeController.js 267, also
\*                                      when processDeposit has returned
\*                                      and handleWebhook has not resumed
\*                      "awaitRefund"   at line 285
\*                      "done"          after line 322
\*   paymentIntent      session.payment_intent
\*   refunds            the calls of stripe.refunds.create it has made
\*   refundFailed       stripe.refunds.create threw in it
\*   acks               the responses 200 {received: true} it has sent
NewCall(stripeSessionId, destinationAddress, amount) ==
    [stripeSessionId |-> stripeSessionId,
     destinationAddress |-> destinationAddress,
     amount |-> amount,
     pc |-> "returned", path |-> "new",
     pendingTxId |-> 0, now |-> 0, availableForOnramp |-> Double(0),
     balance |-> Double(0), pendingAmount |-> Double(0), fromCache |-> FALSE,
     handler |-> "awaitDeposit",
     paymentIntent |-> payment_intent(stripeSessionId),
     refunds |-> 0, refundFailed |-> FALSE, acks |-> 0,
     result |-> NoResult,
     transfers |-> 0, fetchFailed |-> FALSE,
     at |-> "", thrown |-> NoError, timestamp |-> 0, executed |-> FALSE,
     overlapping |-> \E k \in 1..Len(calls) :
                        /\ calls[k].stripeSessionId = stripeSessionId
                        /\ calls[k].pc # "returned"]

\* incrementTotalOnrampedAmount starting the total again from 39
incrementTotalOnrampedAmount_FromStart(total, amount) ==
    Plus(Double(39000), amount)

\* part_005 539-542: totalOnrampedAmount += amount
incrementTotalOnrampedAmount(total, amount) == Plus(total, amount)

\* onrampService.js 185: if (existingTx)
Exists(tx) == tx # NoTx

\* IsSettled without the branch for 'failed' (lines 194-200 left out)
IsSettled_CompletedOnly(tx) == tx.status = "completed"

\* onrampService.js 187, 194: the stored outcome is returned
IsSettled(tx) == tx.status = "completed" \/ tx.status = "failed"

\* onrampService.js 197: existingTx.error || ...: an error that is
\* undefined or the empty text is falsy
IsFalsy(error) == error = NoError \/ error = ThrownMessage("")

\* onrampService.js 188-199: the outcome returned for a settled transaction
StoredOutcome(tx) ==
    IF tx.status = "completed"
    THEN Result(TRUE, tx.txHash, NoError, tx.id)
    ELSE Result(FALSE, NoTxHash,
                IF IsFalsy(tx.error) THEN TransactionFailed ELSE tx.error,
                tx.id)

\* IsInsufficient testing only for an empty headroom
IsInsufficient_OnlyWhenEmpty(available, amount) ==
    ~LessThan(Double(0), available)

\* onrampService.js 237: if (availableForOnramp < amount)
IsInsufficient(available, amount) == LessThan(available, amount)

(* ---------------------------- handleWebhook ---------------------------- *)

\* stripeController.js 280: if (session.payment_intent)
HasPaymentIntent(call) == call.paymentIntent # Undefined

\* handleWebhookResumes refunding only where a transfer was attempted
handleWebhookResumes_RefundOnlyAfterTransfer(call) ==
    IF call.result.success \/ call.transfers = 0 \/ ~HasPaymentIntent(call)
    THEN [call EXCEPT !.handler = "done", !.acks = @ + 1]
    ELSE [call EXCEPT !.handler = "awaitRefund", !.refunds = @ + 1]

\* handleWebhookResumes acknowledging before the refund is requested
handleWebhookResumes_AckBeforeRefund(call) ==
    IF call.result.success \/ ~HasPaymentIntent(call)
    THEN [call EXCEPT !.handler = "done", !.acks = @ + 1]
    ELSE [call EXCEPT !.handler = "awaitRefund", !.refunds = @ + 1,
                      !.acks = @ + 1]

\* stripeController.js 267-285 and 294-322: the frame after processDeposit
\* has returned `call.result` to handleWebhook.  On success, and where the
\* session has no payment intent, the event is acknowledged; on every failure
\* with a payment intent stripe.refunds.create is called.
handleWebhookResumes(call) ==
    IF call.result.success \/ ~HasPaymentIntent(call)
    THEN [call EXCEPT !.handler = "done", !.acks = @ + 1]
    ELSE [call EXCEPT !.handler = "awaitRefund", !.refunds = @ + 1]

\* stripeController.js 267 with onrampService.js 178-202 and 234-235 with
\* 39-53: handleWebhook calls processDeposit; the call up to its first
\* await.  Without a key getHyperliquidBalance throws before it sends a
\* request (part_005 28-30): getWalletBalance and the await at line 235
\* throw, and the outer catch (281-287) returns the failure, all before
\* any other call or handler runs.
processDeposit(stripeSessionId, destinationAddress, amount) ==
    /\ Len(calls) < MaxCalls
    /\ LET existingTx ==
               getPendingTransactionBySessionId(pendingTransactions, stripeSessionId)
           call == NewCall(stripeSessionId, destinationAddress, amount)
       IN  IF Exists(existingTx)
           THEN IF IsSettled(existingTx)
                THEN /\ calls' = Append(calls,
                            [call EXCEPT !.path = "replay",
                                         !.result = StoredOutcome(existingTx)])
                     /\ UNCHANGED pendingTransactions
                ELSE /\ pendingTransactions' =
                            updatePendingTransaction(pendingTransactions,
                                existingTx.id, [status |-> "processing"], now)
                     /\ calls' = Append(calls,
                            depositUsdcToHyperliquid(
                                [call EXCEPT !.path = "existing",
                                             !.pc = "awaitTransfer",
                                             !.pendingTxId = existingTx.id,
                                             !.transfers = 1]))
           ELSE /\ UNCHANGED pendingTransactions
                /\ IF CacheIsFresh(now, lastBalanceCheck)
                   THEN calls' = Append(calls,
                            [call EXCEPT !.pc = "awaitBalance",
                                         !.fromCache = TRUE,
                                         !.balance = lastBalanceCheck.balance,
                                         !.pendingAmount =
                                             calculatePendingAmount(pendingTransactions),
                                         !.availableForOnramp =
                                             availableForOnramp(lastBalanceCheck.balance,
                                                                pendingTransactions)])
                   ELSE IF IsNotConfigured(walletPrivateKey)
                   THEN calls' = Append(calls,
                            [call EXCEPT
                                !.fetchFailed = TRUE,
                                !.result = Result(FALSE, NoTxHash,
                                               ThrownMessage(KeyNotConfigured), 0)])
                   ELSE calls' = Append(calls,
                            [call EXCEPT !.pc = "awaitFetch", !.now = now])
    /\ UNCHANGED <<nextId, lastBalanceCheck, now, withdrawable, walletPrivateKey,
                   totalOnrampedAmount, purged>>

\* onrampService.js 53-69: getHyperliquidBalance answers; the cache is
\* replaced, stamped with the time the call of getWalletBalance started
getHyperliquidBalanceReturns(c) ==
    /\ calls[c].pc = "awaitFetch"
    /\ lastBalanceCheck' = [timestamp |-> calls[c].now, balance |-> withdrawable]
    /\ calls' = [calls EXCEPT
           ![c].pc = "awaitBalance",
           ![c].now = 0,
           ![c].balance = withdrawable,
           ![c].pendingAmount = calculatePendingAmount(pendingTransactions),
           ![c].availableForOnramp =
               availableForOnramp(withdrawable, pendingTransactions)]
    /\ UNCHANGED <<pendingTransactions, nextId, now, withdrawable, walletPrivateKey,
                   totalOnrampedAmount, purged, requests>>

\* getHyperliquidBalanceThrows with the error swallowed and the settlement
\* continued, as createCheckoutSession does at stripeController.js 59-63
getHyperliquidBalanceThrows_Continue(c, e) ==
    /\ calls[c].pc = "awaitFetch"
    /\ calls' = [calls EXCEPT
           ![c].pc = "awaitBalance",
           ![c].now = 0,
           ![c].fetchFailed = TRUE,
           ![c].availableForOnramp = calls[c].amount]
    /\ UNCHANGED <<pendingTransactions, nextId, lastBalanceCheck, now,
                   withdrawable, walletPrivateKey, totalOnrampedAmount, purged, requests>>

\* onrampService.js 71-74 and 281-287: getHyperliquidBalance throws, and so
\* do getWalletBalance and the await at line 235; the outer catch returns
getHyperliquidBalanceThrows(c, e) ==
    /\ calls[c].pc = "awaitFetch"
    /\ calls' = [calls EXCEPT
           ![c].pc = "returned",
           ![c].now = 0,
           ![c].fetchFailed = TRUE,
           ![c].result = Result(FALSE, NoTxHash, ThrownMessage(e), 0)]
    /\ UNCHANGED <<pendingTransactions, nextId, lastBalanceCheck, now,
                   withdrawable, walletPrivateKey, totalOnrampedAmount, purged, requests>>

\* onrampService.js 235-256: getWalletBalance has answered; the headroom
\* check, the new transaction and the call of the transfer
afterGetWalletBalance(c) ==
    /\ calls[c].pc = "awaitBalance"
    /\ LET call == calls[c]
           pendingTx == createPendingTransaction(pendingTransactions, nextId,
                            call.stripeSessionId, call.destinationAddress,
                            call.amount, now)
           insufficient == InsufficientBalance(call.amount, call.availableForOnramp)
       IN  IF IsInsufficient(call.availableForOnramp, call.amount)
           THEN /\ pendingTransactions' =
                       updatePendingTransaction(pendingTx, nextId,
                           [status |-> "failed", error |-> insufficient], now)
                /\ calls' = [calls EXCEPT
                       ![c].pc = "returned",
                       ![c].balance = Double(0),
                       ![c].pendingAmount = Double(0),
                       ![c].fromCache = FALSE,
                       ![c].result = Result(FALSE, NoTxHash, insufficient, nextId)]
           ELSE /\ pendingTransactions' =
                       updatePendingTransaction(pendingTx, nextId,
                           [status |-> "processing"], now)
                /\ calls' = [calls EXCEPT ![c] = depositUsdcToHyperliquid(
                       [call EXCEPT
                           !.pc = "awaitTransfer",
                           !.balance = Double(0),
                           !.pendingAmount = Double(0),
                           !.fromCache = FALSE,
                           !.pendingTxId = nextId,
                           !.transfers = 1])]
    /\ nextId' = nextId + 1
    /\ UNCHANGED <<lastBalanceCheck, now, withdrawable, walletPrivateKey, totalOnrampedAmount,
                   purged, requests>>

\* part_005 (hyperliquidService) 79-85: the venue answers the balance
\* request of depositUsdcToHyperliquid with a balance that covers the
\* amount; Date.now() is read for the time and nonce of the transfer, and
\* the signed request is sent
depositBalanceReturns(c) ==
    /\ calls[c].pc = "awaitTransfer"
    /\ calls[c].at = "info"
    /\ ~ExceedsVenueBalance(withdrawable, calls[c].amount)
    /\ calls' = [calls EXCEPT ![c].at = "exchange", ![c].timestamp = now]
    /\ UNCHANGED <<pendingTransactions, nextId, lastBalanceCheck, now,
                   withdrawable, walletPrivateKey, totalOnrampedAmount, purged, requests>>

\* part_005 (hyperliquidService) 112-127: the venue executes the usdSend
\* of the request, which its balance covers.  The request carries the
\* amount as amount.toString() (line 117), and the venue reports its
\* balance as a decimal text (line 45): the balance after the transfer is
\* the decimal difference of the two
usdSendExecutes(c) ==
    /\ calls[c].pc = "awaitTransfer"
    /\ calls[c].at = "exchange"
    /\ ~calls[c].executed
    /\ ~calls[c].amount.nan
    /\ ~ExceedsVenueBalance(withdrawable, calls[c].amount)
    /\ withdrawable' = DecimalDifference(withdrawable, calls[c].amount)
    /\ calls' = [calls EXCEPT ![c].executed = TRUE]
    /\ UNCHANGED <<pendingTransactions, nextId, lastBalanceCheck, now,
                   walletPrivateKey, totalOnrampedAmount, purged, requests>>

\* onrampService.js 207-217 and 256-266, with part_005 (hyperliquidService)
\* 129-137 and part_005 409-424 and 470-485: the venue answers the request
\* with status 'ok'; the transfer returns the reference made of the time
\* read at line 85
depositUsdcToHyperliquidReturns(c) ==
    /\ calls[c].pc = "awaitTransfer"
    /\ calls[c].at = "exchange"
    /\ calls[c].executed
    /\ totalOnrampedAmount' =
           incrementTotalOnrampedAmount(totalOnrampedAmount, calls[c].amount)
    /\ LET txHash == TxHash(calls[c].destinationAddress, calls[c].amount,
                            calls[c].timestamp)
       IN  /\ pendingTransactions' =
                  updatePendingTransaction(pendingTransactions,
                      calls[c].pendingTxId,
                      [status |-> "completed", txHash |-> txHash], now)
           /\ calls' = [calls EXCEPT
                  ![c].pc = "returned",
                  ![c].at = "",
                  ![c].result = Result(TRUE, txHash, NoError,
                                       calls[c].pendingTxId)]
    /\ UNCHANGED <<nextId, lastBalanceCheck, now, withdrawable, walletPrivateKey, purged,
                   requests>>

\* onrampService.js 219-232 and 268-279: the transfer throws error
depositUsdcToHyperliquidThrows(c, error) ==
    /\ calls[c].pc = "awaitTransfer"
    /\ error \in Throwable(calls[c], withdrawable, RequestErrors)
    /\ pendingTransactions' =
           updatePendingTransaction(pendingTransactions, calls[c].pendingTxId,
               [status |-> "failed", error |-> error], now)
    /\ calls' = [calls EXCEPT
           ![c].pc = "returned",
           ![c].at = "",
           ![c].thrown = NoError,
           ![c].result = Result(FALSE, NoTxHash, error, calls[c].pendingTxId)]
    /\ UNCHANGED <<nextId, lastBalanceCheck, now, withdrawable, walletPrivateKey,
                   totalOnrampedAmount, purged, requests>>

\* stripeController.js 267-285 and 294-322: handleWebhook resumes with what
\* processDeposit returned
afterProcessDeposit(c) ==
    /\ calls[c].pc = "returned"
    /\ calls[c].handler = "awaitDeposit"
    /\ calls' = [calls EXCEPT ![c] = handleWebhookResumes(calls[c])]
    /\ UNCHANGED <<pendingTransactions, nextId, lastBalanceCheck, now,
                   withdrawable, walletPrivateKey, totalOnrampedAmount, purged, requests>>

(* ---------------------- the Refund Client answers --------------------- *)

\* stripeController.js 285-291 and 320-322: the refund is issued, the event
\* is acknowledged
refundsCreateReturns(c) ==
    /\ calls[c].handler = "awaitRefund"
    /\ calls' = [calls EXCEPT ![c].handler = "done", ![c].acks = @ + 1]
    /\ UNCHANGED <<pendingTransactions, nextId, lastBalanceCheck, now,
                   withdrawable, walletPrivateKey, totalOnrampedAmount, purged, requests>>

\* refundsCreateThrows with the error leaving handleWebhook: no response
refundsCreateThrows_Propagates(c, e) ==
    /\ calls[c].handler = "awaitRefund"
    /\ calls' = [calls EXCEPT ![c].handler = "done", ![c].refundFailed = TRUE]
    /\ UNCHANGED <<pendingTransactions, nextId, lastBalanceCheck, now,
                   withdrawable, walletPrivateKey, totalOnrampedAmount, purged, requests>>

\* stripeController.js 297-299 and 320-322: stripe.refunds.create throws;
\* the error is logged, the event is acknowledged
refundsCreateThrows(c, e) ==
    /\ calls[c].handler = "awaitRefund"
    /\ calls' = [calls EXCEPT ![c].handler = "done", ![c].refundFailed = TRUE,
                              ![c].acks = @ + 1]
    /\ UNCHANGED <<pendingTransactions, nextId, lastBalanceCheck, now,
                   withdrawable, walletPrivateKey, totalOnrampedAmount, purged, requests>>

(* ------------------------- the query endpoints ------------------------ *)

\* the body of a response that has not been sent
NoBody == [message |-> Undefined]

\* no session: what a request has asked Stripe to create before it asks,
\* and a retrieve that answers without a session (stripeController.js 176)
NoSession == [id |-> Undefined]

\* the frame of a request: the endpoint, its input, the place it is
\* suspended at ("awaitFetch" in getWalletBalance at onrampService.js 53,
\* "awaitSession" at stripeController.js 76, "responded"), the Date.now()
\* getWalletBalance read at line 39, the response's status and body, and
\* what it has invoked: fetches of the balance and creations of a session
NewRequest(endpoint, input) ==
    [endpoint |-> endpoint, input |-> input, pc |-> "responded", now |-> 0,
     status |-> 0, body |-> NoBody, fetches |-> 0, sessions |-> 0,
     created |-> NoSession]

Respond(request, status, body) ==
    [request EXCEPT !.pc = "responded", !.now = 0, !.status = status,
                    !.body = body]

\* onrampService.js 43-50 and 61-69: what getWalletBalance returns
BalanceInfo(balance, txs) ==
    [balance |-> balance,
     formattedBalance |-> toFixed(balance),
     pendingAmount |-> calculatePendingAmount(txs),
     availableForOnramp |-> availableForOnramp(balance, txs)]

\* stripeController.js 331: the body of the capacity response
CapacityBody(balanceInfo) ==
    [success |-> TRUE,
     balance |-> balanceInfo.balance,
     formattedBalance |-> balanceInfo.formattedBalance,
     pendingAmount |-> balanceInfo.pendingAmount,
     availableForOnramp |-> balanceInfo.availableForOnramp,
     maxAmount |-> MathMin(balanceInfo.availableForOnramp,
                           Divided(Integer(MAX_AMOUNT_USD_CENTS), Integer(100))),
     minAmount |-> Divided(Integer(MIN_AMOUNT_USD_CENTS), Integer(100))]

\* stripeController.js 335-338: the body of an error response
ErrorBody(message) == [success |-> FALSE, message |-> message]

\* onrampService.js 127-136 and 143-152: the view of a transaction (the two
\* times, sent as ISO text, are kept as the milliseconds they stand for)
StatusView(tx) ==
    [sessionId |-> tx.stripeSessionId, status |-> tx.status,
     walletAddress |-> tx.walletAddress, amount |-> tx.amount,
     txHash |-> tx.txHash, error |-> tx.error,
     createdAt |-> tx.createdAt, updatedAt |-> tx.updatedAt]

\* onrampService.js 122-137: null for a session without a transaction
getTransactionStatus(txs, sessionId) ==
    LET tx == getPendingTransactionBySessionId(txs, sessionId)
    IN  IF Exists(tx) THEN StatusView(tx) ELSE NoBody

\* onrampService.js 142-153
getAllTransactionStatuses(txs) == [i \in 1..Len(txs) |-> StatusView(txs[i])]

\* stripeController.js 328-340 with onrampService.js 36-53: the capacity
\* query, up to the response or to the await of the balance; without a key
\* getHyperliquidBalance throws at once (part_005 28-30) and the query is
\* answered 500
getOnrampCapacity ==
    /\ Len(requests) < MaxRequests
    /\ LET request == NewRequest("capacity", Undefined)
       IN  IF CacheIsFresh(now, lastBalanceCheck)
           THEN requests' = Append(requests,
                    Respond(request, 200,
                        CapacityBody(BalanceInfo(lastBalanceCheck.balance,
                                                 pendingTransactions))))
           ELSE IF IsNotConfigured(walletPrivateKey)
           THEN requests' = Append(requests,
                    Respond([request EXCEPT !.fetches = 1], 500,
                            ErrorBody(KeyNotConfigured)))
           ELSE requests' = Append(requests,
                    [request EXCEPT !.pc = "awaitFetch", !.now = now,
                                    !.fetches = 1])
    /\ UNCHANGED <<pendingTransactions, nextId, lastBalanceCheck, now,
                   withdrawable, walletPrivateKey, totalOnrampedAmount, calls, purged>>

\* getOnrampCapacityFetched stamping the cache with the time of the answer
getOnrampCapacityFetched_StampsAnswerTime(r) ==
    /\ requests[r].endpoint = "capacity"
    /\ requests[r].pc = "awaitFetch"
    /\ lastBalanceCheck' = [timestamp |-> now, balance |-> withdrawable]
    /\ requests' = [requests EXCEPT ![r] =
           Respond(requests[r], 200,
               CapacityBody(BalanceInfo(withdrawable, pendingTransactions)))]
    /\ UNCHANGED <<pendingTransactions, nextId, now, withdrawable, walletPrivateKey,
                   totalOnrampedAmount, calls, purged>>

\* onrampService.js 53-69 and stripeController.js 331: getHyperliquidBalance
\* answers the capacity query; the cache is replaced, and the response sent
getOnrampCapacityFetched(r) ==
    /\ requests[r].endpoint = "capacity"
    /\ requests[r].pc = "awaitFetch"
    /\ lastBalanceCheck' = [timestamp |-> requests[r].now, balance |-> withdrawable]
    /\ requests' = [requests EXCEPT ![r] =
           Respond(requests[r], 200,
               CapacityBody(BalanceInfo(withdrawable, pendingTransactions)))]
    /\ UNCHANGED <<pendingTransactions, nextId, now, withdrawable, walletPrivateKey,
                   totalOnrampedAmount, calls, purged>>

\* getOnrampCapacityFails answering with the balance of the cache
getOnrampCapacityFails_FallsBackToCache(r, e) ==
    /\ requests[r].endpoint = "capacity"
    /\ requests[r].pc = "awaitFetch"
    /\ requests' = [requests EXCEPT ![r] =
           Respond(requests[r], 200,
               CapacityBody(BalanceInfo(lastBalanceCheck.balance,
                                        pendingTransactions)))]
    /\ UNCHANGED <<pendingTransactions, nextId, lastBalanceCheck, now,
                   withdrawable, walletPrivateKey, totalOnrampedAmount, calls, purged>>

\* onrampService.js 71-74 and stripeController.js 333-339:
\* getHyperliquidBalance throws in the capacity query
getOnrampCapacityFails(r, e) ==
    /\ requests[r].endpoint = "capacity"
    /\ requests[r].pc = "awaitFetch"
    /\ requests' = [requests EXCEPT ![r] = Respond(requests[r], 500, ErrorBody(e))]
    /\ UNCHANGED <<pendingTransactions, nextId, lastBalanceCheck, now,
                   withdrawable, walletPrivateKey, totalOnrampedAmount, calls, purged>>

\* stripeController.js 348 and 165: !id || typeof id !== 'string' ||
\* id.trim() === '', of an id that is a text
IsBlank(id) == id = "" \/ trim(id) = ""

\* stripeController.js 355 and 169: id.length > 100 || /[<>]/.test(id)
IsInvalidFormat(id) ==
    \/ Len(id) > 100
    \/ \E i \in 1..Len(id) : SubSeq(id, i, i) \in {"<", ">"}

\* stripeController.js 345-380: the status of a session's transaction
getTransactionStatusById(sessionId) ==
    /\ Len(requests) < MaxRequests
    /\ LET txStatus == getTransactionStatus(pendingTransactions, sessionId)
           request == NewRequest("status", sessionId)
       IN  requests' = Append(requests,
               IF IsBlank(sessionId)
               THEN Respond(request, 400, ErrorBody("Valid session ID is required"))
               ELSE IF IsInvalidFormat(sessionId)
               THEN Respond(request, 400, ErrorBody("Invalid session ID format"))
               ELSE IF txStatus = NoBody
               THEN Respond(request, 404, ErrorBody("Transaction not found"))
               ELSE Respond(request, 200,
                        [success |-> TRUE, transaction |-> txStatus]))
    /\ UNCHANGED <<pendingTransactions, nextId, lastBalanceCheck, now,
                   withdrawable, walletPrivateKey, totalOnrampedAmount, calls, purged>>

\* stripeController.js 385-400: the statuses of all transactions
getAllTransactions ==
    /\ Len(requests) < MaxRequests
    /\ requests' = Append(requests,
           Respond(NewRequest("transactions", Undefined), 200,
               [success |-> TRUE,
                transactions |-> getAllTransactionStatuses(pendingTransactions)]))
    /\ UNCHANGED <<pendingTransactions, nextId, lastBalanceCheck, now,
                   withdrawable, walletPrivateKey, totalOnrampedAmount, calls, purged>>

(* ----------------------- createCheckoutSession ------------------------ *)

\* stripeController.js 41: Math.round(amount * 100).  The product is the
\* double nearest the product of the doubles, and Math.round rounds a half
\* upwards (4.995 * 100 = 499.49999999999994 -> 499,
\* 5.015 * 100 = 501.49999999999994 -> 501).
baseAmountCents(amount) == MathRound(Times(amount, Integer(100)))

\* stripeController.js 26: const serviceFeePercent = 0.5
serviceFeePercent == Double(500)

\* stripeController.js 66: serviceFeePercent / 100
serviceFeeRate == Divided(serviceFeePercent, Integer(100))

\* stripeController.js 65-66: Math.round(baseAmountCents * (serviceFeePercent / 100))
serviceFeeCents(cents) == MathRound(Times(cents, serviceFeeRate))

\* stripeController.js 69-72: Math.round(subtotalCents * (2.9 / 100)); the
\* double 2.9 / 100 is 0.028999999999999998
\* (7500 * 0.029 = 217.49999999999997 -> 217)
stripeFeeRate == Divided(Double(2900), Integer(100))

stripeFeePercentCents(subtotalCents) == MathRound(Times(subtotalCents, stripeFeeRate))

\* stripeController.js 67: baseAmountCents + serviceFeeCents
subtotalCents(cents, serviceFee) == Plus(cents, serviceFee)

\* stripeController.js 69-72: stripeFeePercentCents + stripeFeeFixedCents,
\* the fixed fee being 30
stripeFeeCents(subtotal) == Plus(stripeFeePercentCents(subtotal), Integer(30))

\* stripeController.js 74: subtotalCents + stripeFeeCents
totalAmountCents(subtotal, stripeFee) == Plus(subtotal, stripeFee)

FeesWithStripeFee(cents, serviceFee, subtotal, stripeFee) ==
    [baseAmountCents |-> cents,
     serviceFeeCents |-> serviceFee,
     stripeFeeCents |-> stripeFee,
     totalAmountCents |-> totalAmountCents(subtotal, stripeFee)]

FeesWithSubtotal(cents, serviceFee, subtotal) ==
    FeesWithStripeFee(cents, serviceFee, subtotal, stripeFeeCents(subtotal))

FeesWithServiceFee(cents, serviceFee) ==
    FeesWithSubtotal(cents, serviceFee, subtotalCents(cents, serviceFee))

FeesOfCents(cents) == FeesWithServiceFee(cents, serviceFeeCents(cents))

\* stripeController.js 62-74: the amounts in cents that createCheckoutSession
\* computes, each from the ones before it
Fees(amount) == FeesOfCents(baseAmountCents(amount))

\* stripeController.js 30: !amount || typeof amount !== 'number' || amount <= 0
IsValidAmount(amount) ==
    /\ amount.type = "number"
    /\ ~IsFalsyNumber(amount.number)
    /\ ~LessThan(amount.number, Double(0))

\* stripeController.js 33: !walletAddress || typeof walletAddress !== 'string'
IsValidWallet(walletAddress) ==
    walletAddress.type = "string" /\ walletAddress.text # ""

\* stripeController.js 37: walletAddress.match(/^0x[a-fA-F0-9]{40}$/)
MatchesWalletFormat(text) ==
    /\ Len(text) = 42
    /\ SubSeq(text, 1, 2) = "0x"
    /\ IsHex40(SubSeq(text, 3, 42))

\* stripeController.js 128-136: the metadata of the session that
\* createCheckoutSession asks Stripe to create (serviceFeePercent and the
\* note, which are the same for every session, are left out)
MetadataOf(amount, walletAddress, fees) ==
    [baseAmount |-> toString(amount),
     serviceFeeCents |-> toString(fees.serviceFeeCents),
     stripeFeeCents |-> toString(fees.stripeFeeCents),
     totalAmountCents |-> toString(fees.totalAmountCents),
     walletAddress |-> walletAddress]

Metadata(amount, walletAddress) == MetadataOf(amount, walletAddress, Fees(amount))

\* OutsideLimits without the lower limit
OutsideLimits_MaxOnly(cents) == LessThan(Integer(MAX_AMOUNT_USD_CENTS), cents)

\* stripeController.js 43-48: the amount is outside the limits
OutsideLimits(cents) ==
    \/ LessThan(Integer(MAX_AMOUNT_USD_CENTS), cents)
    \/ LessThan(cents, Integer(MIN_AMOUNT_USD_CENTS))

\* stripeController.js 43-48: the body of the 400 response for an amount
\* outside the limits, the upper limit being tested first
LimitRejection(amount) ==
    IF LessThan(Integer(MAX_AMOUNT_USD_CENTS), baseAmountCents(amount))
    THEN [message |-> "Amount cannot exceed $2500"]
    ELSE [message |-> "Amount must be at least $5"]

\* stripeController.js 52: availableForOnramp < amount
ExceedsCapacity(available, amount) == LessThan(available, amount)

\* stripeController.js 31-56: the body of a 400 response
Rejection(message) == [message |-> message]

\* stripeController.js 62-137: the fees, and the call of
\* stripe.checkout.sessions.create with the unit amounts of the three line
\* items and the metadata
sessionsCreateWith(request, fees) ==
    [request EXCEPT
        !.pc = "awaitSession", !.now = 0, !.sessions = 1,
        !.created =
            [unit_amounts |-> <<fees.baseAmountCents, fees.serviceFeeCents,
                                fees.stripeFeeCents>>,
             metadata |-> MetadataOf(request.input.amount.number,
                                     request.input.walletAddress.text, fees)]]

sessionsCreate(request) == sessionsCreateWith(request, Fees(request.input.amount.number))

\* stripeController.js 52-76: createCheckoutSession after getWalletBalance
\* has returned balanceInfo to it: the capacity check, and the call of
\* stripe.checkout.sessions.create
afterCapacityCheck(request, balanceInfo) ==
    IF ExceedsCapacity(balanceInfo.availableForOnramp,
                       request.input.amount.number)
    THEN Respond(request, 400,
             [message |-> "Insufficient balance for onramp. Maximum available: $"
                              \o toFixed(balanceInfo.availableForOnramp),
              availableForOnramp |-> balanceInfo.availableForOnramp])
    ELSE sessionsCreate(request)

\* stripeController.js 27-76 with onrampService.js 36-53: a checkout
\* request with the amount and walletAddress of its JSON body, up to its
\* response or its first await that is not answered from the cache;
\* without a key getHyperliquidBalance throws at once (part_005 28-30),
\* the error is logged (lines 59-63) and the session is created
createCheckoutSession(amount, walletAddress) ==
    /\ Len(requests) < MaxRequests
    /\ LET request == NewRequest("checkout",
                          [amount |-> amount, walletAddress |-> walletAddress])
       IN  requests' = Append(requests,
               IF ~IsValidAmount(amount)
               THEN Respond(request, 400,
                        Rejection("Valid amount is required (must be a positive number)"))
               ELSE IF ~IsValidWallet(walletAddress)
               THEN Respond(request, 400, Rejection("Valid wallet address is required"))
               ELSE IF ~MatchesWalletFormat(walletAddress.text)
               THEN Respond(request, 400, Rejection("Invalid wallet address format"))
               ELSE IF OutsideLimits(baseAmountCents(amount.number))
               THEN Respond(request, 400, LimitRejection(amount.number))
               ELSE IF CacheIsFresh(now, lastBalanceCheck)
               THEN afterCapacityCheck(request,
                        BalanceInfo(lastBalanceCheck.balance, pendingTransactions))
               ELSE IF IsNotConfigured(walletPrivateKey)
               THEN sessionsCreate([request EXCEPT !.fetches = 1])
               ELSE [request EXCEPT !.pc = "awaitFetch", !.now = now,
                                    !.fetches = 1])
    /\ UNCHANGED <<pendingTransactions, nextId, lastBalanceCheck, now,
                   withdrawable, walletPrivateKey, totalOnrampedAmount, calls, purged>>

\* onrampService.js 53-69 and stripeController.js 51-76:
\* getHyperliquidBalance answers a checkout request; the cache is replaced
createCheckoutSessionFetched(r) ==
    /\ requests[r].endpoint = "checkout"
    /\ requests[r].pc = "awaitFetch"
    /\ lastBalanceCheck' = [timestamp |-> requests[r].now, balance |-> withdrawable]
    /\ requests' = [requests EXCEPT ![r] =
           afterCapacityCheck(requests[r],
               BalanceInfo(withdrawable, pendingTransactions))]
    /\ UNCHANGED <<pendingTransactions, nextId, now, withdrawable, walletPrivateKey,
                   totalOnrampedAmount, calls, purged>>

\* createCheckoutSessionFetchFails answering 500 with the error instead of
\* going on to create the session
createCheckoutSessionFetchFails_Rejects(r, e) ==
    /\ requests[r].endpoint = "checkout"
    /\ requests[r].pc = "awaitFetch"
    /\ requests' = [requests EXCEPT ![r] = Respond(requests[r], 500, Rejection(e))]
    /\ UNCHANGED <<pendingTransactions, nextId, lastBalanceCheck, now,
                   withdrawable, walletPrivateKey, totalOnrampedAmount, calls, purged>>

\* onrampService.js 71-74 and stripeController.js 59-76:
\* getHyperliquidBalance throws in a checkout request; the error is logged
\* and the session is created
createCheckoutSessionFetchFails(r, e) ==
    /\ requests[r].endpoint = "checkout"
    /\ requests[r].pc = "awaitFetch"
    /\ requests' = [requests EXCEPT ![r] = sessionsCreate(requests[r])]
    /\ UNCHANGED <<pendingTransactions, nextId, lastBalanceCheck, now,
                   withdrawable, walletPrivateKey, totalOnrampedAmount, calls, purged>>

\* stripeController.js 139-148: the breakdown of the response, the fees
\* and the total being cents / 100
BreakdownOf(amount, fees) ==
    [baseAmount |-> amount,
     serviceFee |-> Divided(fees.serviceFeeCents, Integer(100)),
     stripeFee |-> Divided(fees.stripeFeeCents, Integer(100)),
     totalAmount |-> Divided(fees.totalAmountCents, Integer(100))]

Breakdown(amount) == BreakdownOf(amount, Fees(amount))

\* sessionsCreateReturns reserving the amount of the session it created: a
\* pending transaction is put in the ledger
sessionsCreateReturns_ReservesAmount(r) ==
    /\ requests[r].pc = "awaitSession"
    /\ requests' = [requests EXCEPT ![r] =
           Respond(requests[r], 200,
               [breakdown |-> Breakdown(requests[r].input.amount.number)])]
    /\ pendingTransactions' =
           createPendingTransaction(pendingTransactions, nextId, "sess_3",
               requests[r].input.walletAddress.text,
               requests[r].input.amount.number, now)
    /\ nextId' = nextId + 1
    /\ UNCHANGED <<lastBalanceCheck, now, withdrawable, walletPrivateKey, totalOnrampedAmount,
                   calls, purged>>

\* stripeController.js 76-148: stripe.checkout.sessions.create answers
\* with the session (its id and url, which Stripe chooses, are left out of
\* the response)
sessionsCreateReturns(r) ==
    /\ requests[r].pc = "awaitSession"
    /\ requests' = [requests EXCEPT ![r] =
           Respond(requests[r], 200,
               [breakdown |-> Breakdown(requests[r].input.amount.number)])]
    /\ UNCHANGED <<pendingTransactions, nextId, lastBalanceCheck, now,
                   withdrawable, walletPrivateKey, totalOnrampedAmount, calls, purged>>

\* stripeController.js 150-155: stripe.checkout.sessions.create throws
sessionsCreateThrows(r, e) ==
    /\ requests[r].pc = "awaitSession"
    /\ requests' = [requests EXCEPT ![r] = Respond(requests[r], 500, Rejection(e))]
    /\ UNCHANGED <<pendingTransactions, nextId, lastBalanceCheck, now,
                   withdrawable, walletPrivateKey, totalOnrampedAmount, calls, purged>>

(* ------------------- handleWebhook: the deliveries -------------------- *)

\* stripeController.js 258-259: session.metadata?.walletAddress and
\* parseFloat(session.metadata?.baseAmount || '0')
walletAddressOf(session) == session.metadata.walletAddress

baseAmountOf(session) ==
    parseFloat(IF session.metadata.baseAmount \in {Undefined, ""}
               THEN "0" ELSE session.metadata.baseAmount)

\* a text, or a number, that JavaScript takes for true
IsTruthyText(text) == text # Undefined /\ text # ""
IsTruthyNumber(number) == ~IsFalsyNumber(number)

\* stripeController.js 130, 135 with 249-255: the delivery of the
\* payment-completed event of a session that createCheckoutSession made:
\* the secret is configured, the signature verifies, the session is paid,
\* and the metadata carry the wallet and amount.toString()
DeliveryOf(ev) ==
    [endpointSecret |-> WebhookSecret,
     verifies |-> TRUE,
     type |-> CheckoutSessionCompleted,
     session |-> [id |-> ev.sessionId,
                  payment_status |-> Paid,
                  metadata |-> Metadata(ev.amount, ev.walletAddress)]]

\* the deliveries: those of Events, and the delivery of sess_1's event
\* without a configured secret, with a signature that does not verify, of
\* another type, unpaid, and with metadata without wallet, without amount,
\* with the amount 0, with an amount that is no number, with an amount
\* followed by letters, with a negative amount, and with amounts of four
\* decimals
Deliveries ==
    LET d == DeliveryOf(CHOOSE ev \in Events : ev.sessionId = "sess_1")
    IN  {DeliveryOf(ev) : ev \in Events} \cup
        {[d EXCEPT !.endpointSecret = ""],
         [d EXCEPT !.verifies = FALSE],
         [d EXCEPT !.type = "payment_intent.succeeded"],
         [d EXCEPT !.session.payment_status = "unpaid"],
         [d EXCEPT !.session.metadata.walletAddress = Undefined],
         [d EXCEPT !.session.metadata.baseAmount = Undefined],
         [d EXCEPT !.session.metadata.baseAmount = "0"],
         [d EXCEPT !.session.metadata.baseAmount = "abc"],
         [d EXCEPT !.session.metadata.baseAmount = "80abc"],
         [d EXCEPT !.session.metadata.baseAmount = "-5"],
         [d EXCEPT !.session.metadata.baseAmount = "0.0004"],
         [d EXCEPT !.session.metadata.baseAmount = "80.0005"]}

\* Settles without the test of payment_status (line 255 left out)
Settles_WhateverPaymentStatus(delivery) ==
    /\ IsTruthyText(delivery.endpointSecret)
    /\ delivery.verifies
    /\ delivery.type = CheckoutSessionCompleted
    /\ IsTruthyText(walletAddressOf(delivery.session))
    /\ IsTruthyNumber(baseAmountOf(delivery.session))

\* stripeController.js 233-261: the delivery reaches the call of
\* processDeposit at line 267
Settles(delivery) ==
    /\ IsTruthyText(delivery.endpointSecret)
    /\ delivery.verifies
    /\ delivery.type = CheckoutSessionCompleted
    /\ delivery.session.payment_status = Paid
    /\ IsTruthyText(walletAddressOf(delivery.session))
    /\ IsTruthyNumber(baseAmountOf(delivery.session))

\* the deliveries that have been answered without a settlement
Unsettled == {r \in 1..Len(requests) : requests[r].pc = "responded"}

\* stripeController.js 229-267 and 308-322: a delivery arrives at the
\* webhook.  Without a secret it is answered 500, with a signature that
\* does not verify 400; an event that is not a paid checkout.session.completed
\* with wallet and amount is logged and acknowledged; for any other
\* processDeposit is called, and the handler continues in the frame of that
\* call.
handleWebhook(delivery) ==
    LET request == NewRequest("webhook", delivery)
    IN  IF Settles(delivery)
        THEN /\ processDeposit(delivery.session.id,
                                walletAddressOf(delivery.session),
                                baseAmountOf(delivery.session))
             /\ requests' = Append(requests,
                    [request EXCEPT !.pc = "awaitDeposit"])
        ELSE /\ Cardinality(Unsettled) < MaxRequests
             /\ requests' = Append(requests,
                    IF ~IsTruthyText(delivery.endpointSecret)
                    THEN Respond(request, 500,
                             Rejection("Webhook secret not configured"))
                    ELSE IF ~delivery.verifies
                    THEN Respond(request, 400,
                             Rejection("Webhook signature verification failed"))
                    ELSE Respond(request, 200, [received |-> TRUE]))
             /\ UNCHANGED <<pendingTransactions, nextId, lastBalanceCheck, now,
                            withdrawable, walletPrivateKey, totalOnrampedAmount, calls, purged>>

(* ---------------------------- verifySession --------------------------- *)

\* the ids verifySession is asked for: a session of Events, no id, and an
\* id of 101 characters
VerifiedIds == {"sess_1", "", Repeat("s", 101)}

\* stripe.checkout.sessions.retrieve(id): the session that
\* createCheckoutSession made for the event, paid or not yet; for an id
\* without a session Stripe throws
SessionsOfEvents == {DeliveryOf(ev).session : ev \in Events}

RetrievedSessions(id) ==
    {[session EXCEPT !.payment_status = status] :
        session \in {s \in SessionsOfEvents : s.id = id},
        status \in {Paid, "unpaid"}}

\* stripeController.js 190-194: parseFloat(session.metadata?.x || '0') / 100
CentsOf(text) ==
    Divided(parseFloat(IF text \in {Undefined, ""} THEN "0" ELSE text),
            Integer(100))

\* stripeController.js 189-217: the body of the response for a paid session
\* (the customer is left out); a session without a transaction is shown
\* with a pending one that is not stored, made at the time t
VerifiedBody(id, session, txs, t) ==
    LET txStatus == getTransactionStatus(txs, id)
        walletAddress == IF IsTruthyText(walletAddressOf(session))
                         THEN walletAddressOf(session) ELSE ""
    IN  [success |-> TRUE,
         session |-> [id |-> session.id,
                      baseAmount |-> baseAmountOf(session),
                      serviceFee |-> CentsOf(session.metadata.serviceFeeCents),
                      stripeFee |-> CentsOf(session.metadata.stripeFeeCents),
                      totalPaid |-> CentsOf(session.metadata.totalAmountCents),
                      walletAddress |-> walletAddress,
                      paymentStatus |-> session.payment_status],
         transaction |->
             IF txStatus # NoBody THEN txStatus
             ELSE [sessionId |-> id, status |-> "pending",
                   walletAddress |-> walletAddress,
                   amount |-> baseAmountOf(session),
                   txHash |-> NoTxHash, error |-> NoError,
                   createdAt |-> t, updatedAt |-> t]]

\* stripeController.js 161-174: a verify-session request, up to its
\* response or the await of stripe.checkout.sessions.retrieve
verifySession(id) ==
    /\ Len(requests) < MaxRequests
    /\ LET request == NewRequest("verify", [id |-> id])
       IN  requests' = Append(requests,
               IF IsBlank(id)
               THEN Respond(request, 400, Rejection("Valid session ID is required"))
               ELSE IF IsInvalidFormat(id)
               THEN Respond(request, 400, Rejection("Invalid session ID format"))
               ELSE [request EXCEPT !.pc = "awaitRetrieve"])
    /\ UNCHANGED <<pendingTransactions, nextId, lastBalanceCheck, now,
                   withdrawable, walletPrivateKey, totalOnrampedAmount, calls, purged>>

\* stripeController.js 174-217: stripe.checkout.sessions.retrieve answers
\* with the session
sessionsRetrieveReturns(r, session) ==
    /\ requests[r].pc = "awaitRetrieve"
    /\ requests' = [requests EXCEPT ![r] =
           IF session = NoSession
           THEN Respond(requests[r], 404, Rejection("Session not found"))
           ELSE IF session.payment_status # Paid
           THEN Respond(requests[r], 400,
                    ErrorBody("Payment status is " \o session.payment_status))
           ELSE Respond(requests[r], 200,
                    VerifiedBody(requests[r].input.id, session,
                                 pendingTransactions, now))]
    /\ UNCHANGED <<pendingTransactions, nextId, lastBalanceCheck, now,
                   withdrawable, walletPrivateKey, totalOnrampedAmount, calls, purged>>

\* stripeController.js 219-224: stripe.checkout.sessions.retrieve throws
sessionsRetrieveThrows(r, e) ==
    /\ requests[r].pc = "awaitRetrieve"
    /\ requests' = [requests EXCEPT ![r] = Respond(requests[r], 500, Rejection(e))]
    /\ UNCHANGED <<pendingTransactions, nextId, lastBalanceCheck, now,
                   withdrawable, walletPrivateKey, totalOnrampedAmount, calls, purged>>

(* ------------------------ the sweep and the clock --------------------- *)

\* onrampService.js 301-311
CleanupOldTransactions(maxAgeHours) ==
    /\ pendingTransactions' =
           cleanupOldTransactions(pendingTransactions, now, maxAgeHours)
    /\ purged' = purged \cup
           {pendingTransactions[i].id : i \in
               {j \in 1..Len(pendingTransactions) :
                   IsPurgeable(pendingTransactions[j], now, maxAgeHours)}}
    /\ UNCHANGED <<nextId, lastBalanceCheck, now, withdrawable, walletPrivateKey,
                   totalOnrampedAmount, calls,
                   requests>>

\* Date.now() advances
Tick(t) ==
    /\ t > now
    /\ now' = t
    /\ UNCHANGED <<pendingTransactions, nextId, lastBalanceCheck,
                   withdrawable, walletPrivateKey, totalOnrampedAmount,
                   calls, purged, requests>>

(* ------------------ direct calls of the ledger's functions ------------ *)

\* the arguments of direct calls of updatePendingTransaction: the ids of a
\* ledger of one transaction and an id that is not in it, and updates to
\* every status, in any order
UpdatedIds == {1, 2}
LedgerUpdates ==
    {[status |-> "pending"],
     [status |-> "processing"],
     [status |-> "completed",
      txHash |-> TxHash(WalletA, Double(80000), 100000)],
     [status |-> "failed", error |-> ThrownMessage("UpstreamRejected")]}

\* onrampService.js 158-164: what updatePendingTransaction returns, the
\* transaction as it is stored after the call, NoTx for undefined
updatedTransaction(txs, id) ==
    IF \E i \in 1..Len(txs) : txs[i].id = id
    THEN txs[CHOOSE i \in 1..Len(txs) : txs[i].id = id]
    ELSE NoTx

\* onrampService.js 93-106: createPendingTransaction is called for a payment
createPendingTransactionCalled(stripeSessionId, walletAddress, amount) ==
    /\ pendingTransactions' =
           createPendingTransaction(pendingTransactions, nextId,
               stripeSessionId, walletAddress, amount, now)
    /\ nextId' = nextId + 1
    /\ UNCHANGED <<lastBalanceCheck, now, withdrawable, walletPrivateKey, totalOnrampedAmount,
                   calls, purged, requests>>

\* onrampService.js 157-165: updatePendingTransaction is called; the frame
\* of the latest call, with what it returned, is kept in `requests`
updatePendingTransactionCalled(id, updates) ==
    /\ pendingTransactions' =
           updatePendingTransaction(pendingTransactions, id, updates, now)
    /\ requests' =
           << [NewRequest("updatePendingTransaction",
                          [id |-> id, updates |-> updates])
                  EXCEPT !.body = updatedTransaction(pendingTransactions', id)] >>
    /\ UNCHANGED <<nextId, lastBalanceCheck, now, withdrawable, walletPrivateKey,
                   totalOnrampedAmount, calls, purged>>

\* onrampService.js 170-172: deletePendingTransaction is called
deletePendingTransactionCalled(id) ==
    /\ pendingTransactions' = deletePendingTransaction(pendingTransactions, id)
    /\ purged' = purged \cup
           {pendingTransactions[i].id : i \in
               {j \in 1..Len(pendingTransactions) :
                   pendingTransactions[j].id = id}}
    /\ UNCHANGED <<nextId, lastBalanceCheck, now, withdrawable, walletPrivateKey,
                   totalOnrampedAmount, calls, requests>>

\* part_005 539-542: incrementTotalOnrampedAmount is exported, and is
\* called here with any amount; the frame of the call is kept in `requests`
incrementTotalOnrampedAmountCalled(amount) ==
    /\ Len(requests) < MaxRequests
    /\ totalOnrampedAmount' =
           incrementTotalOnrampedAmount(totalOnrampedAmount, amount)
    /\ requests' = Append(requests,
           NewRequest("incrementTotalOnrampedAmount", amount))
    /\ UNCHANGED <<pendingTransactions, nextId, lastBalanceCheck, now,
                   withdrawable, walletPrivateKey, calls, purged>>

(* --------------------------- specification ---------------------------- *)

\* onrampService.js 25-31: an empty Map, and a cache that was never filled
Init ==
    /\ pendingTransactions = <<>>
    /\ nextId = 1
    /\ lastBalanceCheck = [timestamp |-> 0, balance |-> Double(0)]
    /\ now \in StartTimes
    /\ withdrawable \in InitialBalances
    /\ walletPrivateKey \in WalletPrivateKeys
    /\ totalOnrampedAmount = Double(39000)
    /\ calls = <<>>
    /\ purged = {}
    /\ requests = <<>>

\* the settlement: deliveries of the payment-completed events, up to the
\* acknowledgment or the request of the refund, all within one reading of
\* the clock.  The answers to the refund requests, which read and write
\* nothing but the frame of their handleWebhook call, are in NextWebhook.
Next ==
    \/ \E ev \in Events :
           /\ processDeposit(ev.sessionId, ev.walletAddress, ev.amount)
           /\ UNCHANGED requests
    \/ \E c \in 1..Len(calls) : getHyperliquidBalanceReturns(c)
    \/ \E c \in 1..Len(calls), e \in BalanceErrors : getHyperliquidBalanceThrows(c, e)
    \/ \E c \in 1..Len(calls) : afterGetWalletBalance(c)
    \/ \E c \in 1..Len(calls) : depositBalanceReturns(c)
    \/ \E c \in 1..Len(calls) : usdSendExecutes(c)
    \/ \E c \in 1..Len(calls) : depositUsdcToHyperliquidReturns(c)
    \/ \E c \in 1..Len(calls) :
           \E error \in Throwable(calls[c], withdrawable, TransferErrors) :
               depositUsdcToHyperliquidThrows(c, error)
    \/ \E c \in 1..Len(calls) : afterProcessDeposit(c)

Spec == Init /\ [][Next]_vars

\* the settlement as time passes, with the sweep of the ledger
NextClock ==
    \/ Next
    \/ \E h \in MaxAgeHoursArgs : CleanupOldTransactions(h)
    \/ \E t \in ClockReadings : Tick(t)

SpecClock == Init /\ [][NextClock]_vars

\* the server as the repository runs it: handleWebhook to its end, with the
\* answers of stripe.refunds.create.  cleanupOldTransactions is exported but
\* called nowhere in the repository, so the server never sweeps.
NextWebhook ==
    \/ \E ev \in WebhookEvents :
           /\ processDeposit(ev.sessionId, ev.walletAddress, ev.amount)
           /\ UNCHANGED requests
    \/ \E c \in 1..Len(calls) : getHyperliquidBalanceReturns(c)
    \/ \E c \in 1..Len(calls), e \in BalanceErrors : getHyperliquidBalanceThrows(c, e)
    \/ \E c \in 1..Len(calls) : afterGetWalletBalance(c)
    \/ \E c \in 1..Len(calls) : depositBalanceReturns(c)
    \/ \E c \in 1..Len(calls) : usdSendExecutes(c)
    \/ \E c \in 1..Len(calls) : depositUsdcToHyperliquidReturns(c)
    \/ \E c \in 1..Len(calls) :
           \E error \in Throwable(calls[c], withdrawable, TransferErrors) :
               depositUsdcToHyperliquidThrows(c, error)
    \/ \E c \in 1..Len(calls) : afterProcessDeposit(c)
    \/ \E c \in 1..Len(calls) : refundsCreateReturns(c)
    \/ \E c \in 1..Len(calls), e \in RefundErrors : refundsCreateThrows(c, e)

SpecWebhook == Init /\ [][NextWebhook]_vars

\* processDeposit and deletePendingTransaction are exported: the
\* settlement, processDeposit being called with any arguments, and
\* deletePendingTransaction with any id
NextDirect ==
    \/ \E ev \in DirectCalls :
           /\ processDeposit(ev.sessionId, ev.walletAddress, ev.amount)
           /\ UNCHANGED requests
    \/ \E c \in 1..Len(calls) : getHyperliquidBalanceReturns(c)
    \/ \E c \in 1..Len(calls), e \in BalanceErrors : getHyperliquidBalanceThrows(c, e)
    \/ \E c \in 1..Len(calls) : afterGetWalletBalance(c)
    \/ \E c \in 1..Len(calls) : depositBalanceReturns(c)
    \/ \E c \in 1..Len(calls) : usdSendExecutes(c)
    \/ \E c \in 1..Len(calls) : depositUsdcToHyperliquidReturns(c)
    \/ \E c \in 1..Len(calls) :
           \E error \in Throwable(calls[c], withdrawable, RequestErrors) :
               depositUsdcToHyperliquidThrows(c, error)
    \/ \E id \in UpdatedIds : deletePendingTransactionCalled(id)
    \/ \E t \in ClockReadings : Tick(t)

SpecDirect == Init /\ [][NextDirect]_vars

\* the query endpoints of src/src/routes/stripeRoutes.js 44-48 beside the
\* settlement of one payment
NextQueries ==
    \/ \E ev \in Events :
           /\ calls = <<>>
           /\ processDeposit(ev.sessionId, ev.walletAddress, ev.amount)
           /\ UNCHANGED requests
    \/ \E c \in 1..Len(calls) : getHyperliquidBalanceReturns(c)
    \/ \E c \in 1..Len(calls), e \in BalanceErrors : getHyperliquidBalanceThrows(c, e)
    \/ \E c \in 1..Len(calls) : afterGetWalletBalance(c)
    \/ \E c \in 1..Len(calls) : depositBalanceReturns(c)
    \/ \E c \in 1..Len(calls) : usdSendExecutes(c)
    \/ \E c \in 1..Len(calls) : depositUsdcToHyperliquidReturns(c)
    \/ \E c \in 1..Len(calls) :
           \E error \in Throwable(calls[c], withdrawable, TransferErrors) :
               depositUsdcToHyperliquidThrows(c, error)
    \/ \E c \in 1..Len(calls) : afterProcessDeposit(c)
    \/ getOnrampCapacity
    \/ \E r \in 1..Len(requests) : getOnrampCapacityFetched(r)
    \/ \E r \in 1..Len(requests), e \in BalanceErrors : getOnrampCapacityFails(r, e)
    \/ \E sessionId \in QueriedSessions : getTransactionStatusById(sessionId)
    \/ getAllTransactions
    \/ \E t \in ClockReadings : Tick(t)

SpecQueries == Init /\ [][NextQueries]_vars

\* the checkout and verify-session endpoints of src/src/routes/stripeRoutes.js
\* 40-42 beside the
\* settlement of one payment, all within the time-to-live of the cache
NextCheckout ==
    \/ \E ev \in Events :
           /\ calls = <<>>
           /\ processDeposit(ev.sessionId, ev.walletAddress, ev.amount)
           /\ UNCHANGED requests
    \/ \E c \in 1..Len(calls) : getHyperliquidBalanceReturns(c)
    \/ \E c \in 1..Len(calls), e \in BalanceErrors : getHyperliquidBalanceThrows(c, e)
    \/ \E c \in 1..Len(calls) : afterGetWalletBalance(c)
    \/ \E c \in 1..Len(calls) : depositBalanceReturns(c)
    \/ \E c \in 1..Len(calls) : usdSendExecutes(c)
    \/ \E c \in 1..Len(calls) : depositUsdcToHyperliquidReturns(c)
    \/ \E c \in 1..Len(calls) :
           \E error \in Throwable(calls[c], withdrawable, TransferErrors) :
               depositUsdcToHyperliquidThrows(c, error)
    \/ \E c \in 1..Len(calls) : afterProcessDeposit(c)
    \/ \E body \in CheckoutRequests :
           createCheckoutSession(body.amount, body.walletAddress)
    \/ \E r \in 1..Len(requests) : createCheckoutSessionFetched(r)
    \/ \E r \in 1..Len(requests), e \in BalanceErrors :
           createCheckoutSessionFetchFails(r, e)
    \/ \E r \in 1..Len(requests) : sessionsCreateReturns(r)
    \/ \E r \in 1..Len(requests), e \in SessionErrors : sessionsCreateThrows(r, e)
    \/ \E id \in VerifiedIds : verifySession(id)
    \/ \E r \in 1..Len(requests) :
           /\ requests[r].endpoint = "verify"
           /\ \E session \in RetrievedSessions(requests[r].input.id)
                                 \cup {NoSession} :
                  sessionsRetrieveReturns(r, session)
    \/ \E r \in 1..Len(requests), e \in SessionErrors : sessionsRetrieveThrows(r, e)

SpecCheckout == Init /\ [][NextCheckout]_vars

\* the webhook endpoint of src/src/routes/stripeRoutes.js 50 with every
\* delivery it can receive, beside the settlement of one payment
NextDeliveries ==
    \/ \E delivery \in Deliveries :
           /\ Settles(delivery) => calls = <<>>
           /\ handleWebhook(delivery)
    \/ \E c \in 1..Len(calls) : getHyperliquidBalanceReturns(c)
    \/ \E c \in 1..Len(calls), e \in BalanceErrors : getHyperliquidBalanceThrows(c, e)
    \/ \E c \in 1..Len(calls) : afterGetWalletBalance(c)
    \/ \E c \in 1..Len(calls) : depositBalanceReturns(c)
    \/ \E c \in 1..Len(calls) : usdSendExecutes(c)
    \/ \E c \in 1..Len(calls) : depositUsdcToHyperliquidReturns(c)
    \/ \E c \in 1..Len(calls) :
           \E error \in Throwable(calls[c], withdrawable, TransferErrors) :
               depositUsdcToHyperliquidThrows(c, error)
    \/ \E c \in 1..Len(calls) : afterProcessDeposit(c)
    \/ \E c \in 1..Len(calls) : refundsCreateReturns(c)
    \/ \E c \in 1..Len(calls), e \in RefundErrors : refundsCreateThrows(c, e)

SpecDeliveries == Init /\ [][NextDeliveries]_vars

\* the ledger by itself: createPendingTransaction,
\* updatePendingTransaction and deletePendingTransaction are exported and
\* are called here with any arguments, on a ledger of one transaction
NextLedger ==
    \/ \E ev \in Events :
           /\ pendingTransactions = <<>>
           /\ createPendingTransactionCalled(ev.sessionId, ev.walletAddress,
                                             ev.amount)
    \/ \E id \in UpdatedIds, updates \in LedgerUpdates :
           updatePendingTransactionCalled(id, updates)
    \/ \E id \in UpdatedIds : deletePendingTransactionCalled(id)
    \/ \E t \in ClockReadings : Tick(t)

SpecLedger == Init /\ [][NextLedger]_vars

\* the capacity query beside the settlement of payments of amounts with
\* cents, all within one reading of the clock
NextExposure ==
    \/ \E ev \in DecimalEvents :
           /\ processDeposit(ev.sessionId, ev.walletAddress, ev.amount)
           /\ UNCHANGED requests
    \/ \E c \in 1..Len(calls) : getHyperliquidBalanceReturns(c)
    \/ \E c \in 1..Len(calls), e \in BalanceErrors : getHyperliquidBalanceThrows(c, e)
    \/ \E c \in 1..Len(calls) : afterGetWalletBalance(c)
    \/ \E c \in 1..Len(calls) : depositBalanceReturns(c)
    \/ \E c \in 1..Len(calls) : usdSendExecutes(c)
    \/ \E c \in 1..Len(calls) : depositUsdcToHyperliquidReturns(c)
    \/ \E c \in 1..Len(calls) :
           \E error \in Throwable(calls[c], withdrawable, TransferErrors) :
               depositUsdcToHyperliquidThrows(c, error)
    \/ getOnrampCapacity
    \/ \E r \in 1..Len(requests) : getOnrampCapacityFetched(r)
    \/ \E r \in 1..Len(requests), e \in BalanceErrors : getOnrampCapacityFails(r, e)

SpecExposure == Init /\ [][NextExposure]_vars

\* processDeposit, cleanupOldTransactions and incrementTotalOnrampedAmount
\* are exported: the settlement of payments of amounts with cents as time
\* passes, with the sweep of the ledger and with incrementTotalOnrampedAmount
\* called with any amount
NextTotal ==
    \/ \E ev \in DecimalEvents :
           /\ processDeposit(ev.sessionId, ev.walletAddress, ev.amount)
           /\ UNCHANGED requests
    \/ \E c \in 1..Len(calls) : getHyperliquidBalanceReturns(c)
    \/ \E c \in 1..Len(calls), e \in BalanceErrors : getHyperliquidBalanceThrows(c, e)
    \/ \E c \in 1..Len(calls) : afterGetWalletBalance(c)
    \/ \E c \in 1..Len(calls) : depositBalanceReturns(c)
    \/ \E c \in 1..Len(calls) : usdSendExecutes(c)
    \/ \E c \in 1..Len(calls) : depositUsdcToHyperliquidReturns(c)
    \/ \E c \in 1..Len(calls) :
           \E error \in Throwable(calls[c], withdrawable, TransferErrors) :
               depositUsdcToHyperliquidThrows(c, error)
    \/ \E amount \in IncrementArgs : incrementTotalOnrampedAmountCalled(amount)
    \/ \E h \in MaxAgeHoursArgs : CleanupOldTransactions(h)
    \/ \E t \in ClockReadings : Tick(t)

SpecTotal == Init /\ [][NextTotal]_vars

\* the settlement with the progress the code itself guarantees: a call
\* whose await of getWalletBalance has been answered is resumed by the event
\* loop (onrampService.js 235).  The answers of getHyperliquidBalance and
\* depositUsdcToHyperliquid come from the venue; the requests are sent with
\* axios.post without a timeout (part_005 34, 112) and the repository sets
\* no timer, so nothing in the code makes an await end: no fairness is
\* stated for them.
SpecLive ==
    Init /\ [][Next]_vars
         /\ WF_vars(\E c \in 1..Len(calls) : afterGetWalletBalance(c))

(* ------------------------------ claims -------------------------------- *)

Returned(k) == calls[k].pc = "returned"

IsTerminal(tx) == tx.status = "completed" \/ tx.status = "failed"

\* the calls made for a session, and the transfers they have invoked
CallsOf(s) == {k \in 1..Len(calls) : calls[k].stripeSessionId = s}

TransferCalls(s) == Cardinality({k \in CallsOf(s) : calls[k].transfers = 1})

\* the places in a ledger of the transactions of a session
TxOf(txs, s) == {i \in 1..Len(txs) : txs[i].stripeSessionId = s}

CompletedOf(txs, s) == {i \in TxOf(txs, s) : txs[i].status = "completed"}

FailedOf(txs, s) == {i \in TxOf(txs, s) : txs[i].status = "failed"}

\* the same success flag, the same txHash and the same error reason
SameOutcome(r1, r2) ==
    /\ r1.success = r2.success
    /\ r1.txHash = r2.txHash
    /\ r1.error = r2.error

\* j is the second call for its session, i the first one, the first had
\* returned when the second started, and nothing was swept
IsSequentialRedelivery(i, j) ==
    /\ i < j
    /\ calls[i].stripeSessionId = calls[j].stripeSessionId
    /\ \A k \in 1..(j - 1) :
           k # i => calls[k].stripeSessionId # calls[j].stripeSessionId
    /\ ~calls[j].overlapping
    /\ purged = {}

\* C1: when processDeposit is called twice one after the other for the same
\* session, the second call invokes no transfer, the two calls invoke at
\* most one transfer between them, and both return the same outcome.  (The
\* claim's "exactly once in total" also asks for one transfer where neither
\* call makes any; what is stated here is what it says of a redelivery.)
C1_SequentialRedeliveryIdempotent ==
    \A i, j \in 1..Len(calls) :
        IsSequentialRedelivery(i, j) =>
            /\ calls[j].transfers = 0
            /\ calls[i].transfers + calls[j].transfers <= 1
            /\ Returned(j) => SameOutcome(calls[i].result, calls[j].result)

\* C2: when a call for a session starts while an earlier call for the same
\* session is suspended, the transfer is invoked at most once for the session.
C2_OverlappingRedeliveryIdempotent ==
    \A s \in Sessions :
        (purged = {} /\ \E k \in CallsOf(s) : calls[k].overlapping)
            => TransferCalls(s) <= 1

\* C3: the ledger never holds two completed transactions of one session, and
\* a txHash that is set never changes.
C3_NoDoubleCredit ==
    [][ /\ \A s \in Sessions :
               Cardinality(CompletedOf(pendingTransactions', s)) <= 1
        /\ \A i \in 1..Len(pendingTransactions) :
               pendingTransactions[i].txHash # NoTxHash =>
                   \A j \in 1..Len(pendingTransactions') :
                       pendingTransactions'[j].id = pendingTransactions[i].id =>
                           pendingTransactions'[j].txHash =
                               pendingTransactions[i].txHash ]_vars

\* C4: the ledger holds at most one transaction per session.
C4_SessionUniqueness ==
    \A s \in Sessions : Cardinality(TxOf(pendingTransactions, s)) <= 1

\* what lines 183-200 make of a call for session s in the current state:
\* the call returns at once, before any await, with the stored outcome
\* exactly if the lookup finds a settled transaction
ReplaysAtOnce(s) ==
    LET existingTx == getPendingTransactionBySessionId(pendingTransactions, s)
    IN  Exists(existingTx) /\ IsSettled(existingTx)

ReplayedOutcome(s) ==
    StoredOutcome(getPendingTransactionBySessionId(pendingTransactions, s))

\* C5: in every state in which the ledger holds a completed transaction of a
\* session, a call of processDeposit for the session returns at once (no
\* balance oracle, no transfer, the ledger as it is) with success and the
\* stored txHash.
C5_ReplayOfCompleted ==
    \A s \in Sessions :
        CompletedOf(pendingTransactions, s) # {} =>
            /\ ReplaysAtOnce(s)
            /\ ReplayedOutcome(s).success
            /\ \E i \in CompletedOf(pendingTransactions, s) :
                   ReplayedOutcome(s).txHash = pendingTransactions[i].txHash

\* C6: in every state in which the ledger holds a failed transaction of a
\* session, a call of processDeposit for the session returns at once (no
\* transfer, no retry, the ledger as it is) with failure and the stored
\* reason.
C6_ReplayOfFailed ==
    \A s \in Sessions :
        FailedOf(pendingTransactions, s) # {} =>
            /\ ReplaysAtOnce(s)
            /\ ~ReplayedOutcome(s).success
            /\ \E i \in FailedOf(pendingTransactions, s) :
                   ReplayedOutcome(s).error = pendingTransactions[i].error

\* C7: the status of a completed or failed transaction is never changed.
C7_TerminalAbsorbing ==
    [][ \A i \in 1..Len(pendingTransactions) :
            IsTerminal(pendingTransactions[i]) =>
                \A j \in 1..Len(pendingTransactions') :
                    pendingTransactions'[j].id = pendingTransactions[i].id =>
                        pendingTransactions'[j].status =
                            pendingTransactions[i].status ]_vars

\* C8: a completed or failed transaction is never set back to pending or
\* processing.
C8_NoRevertToInFlight ==
    [][ \A i \in 1..Len(pendingTransactions) :
            IsTerminal(pendingTransactions[i]) =>
                \A j \in 1..Len(pendingTransactions') :
                    pendingTransactions'[j].id = pendingTransactions[i].id =>
                        IsTerminal(pendingTransactions'[j]) ]_vars

\* two calls that both invoked a transfer have written different outcomes
\* to the same transaction, the later one to a settled transaction
C8_Witness ==
    \E k, m \in 1..Len(calls) :
        /\ k # m /\ Returned(k) /\ Returned(m)
        /\ calls[k].transfers = 1 /\ calls[m].transfers = 1
        /\ calls[k].result.pendingTxId = calls[m].result.pendingTxId
        /\ calls[k].result.success /\ ~calls[m].result.success

\* C9: a call in which the balance fetch failed invokes no transfer and
\* returns failure.
C9_FailClosedOnUnknownBalance ==
    \A k \in 1..Len(calls) :
        calls[k].fetchFailed =>
            /\ calls[k].transfers = 0
            /\ Returned(k)
            /\ ~calls[k].result.success

\* the balance fetch failed in one call while another call's transfer went
\* through
C9_Witness ==
    /\ \E k \in 1..Len(calls) : calls[k].fetchFailed
    /\ \E k \in 1..Len(calls) : Returned(k) /\ calls[k].result.success

\* C10: a call that finds availableForOnramp < amount returns failure with
\* the insufficient-balance reason without invoking the transfer, and records
\* a failed transaction with that reason for the session; such a
\* transaction stays failed with that reason.
C10_InsufficientHeadroom ==
    [][ /\ \A c \in 1..Len(calls) :
               ( /\ calls[c].pc = "awaitBalance"
                 /\ calls'[c].pc # "awaitBalance"
                 /\ LessThan(calls[c].availableForOnramp, calls[c].amount) )
               => LET reason == InsufficientBalance(calls[c].amount,
                                                    calls[c].availableForOnramp)
                  IN  /\ calls'[c].pc = "returned"
                      /\ calls'[c].transfers = 0
                      /\ ~calls'[c].result.success
                      /\ calls'[c].result.error = reason
                      /\ \E j \in TxOf(pendingTransactions', calls[c].stripeSessionId) :
                             /\ pendingTransactions'[j].id = calls'[c].result.pendingTxId
                             /\ pendingTransactions'[j].status = "failed"
                             /\ pendingTransactions'[j].error = reason
                             /\ \A i \in 1..Len(pendingTransactions) :
                                    pendingTransactions[i].id #
                                        pendingTransactions'[j].id
        /\ \A i \in 1..Len(pendingTransactions) :
               pendingTransactions[i].error.kind = "Insufficient balance for onramp" =>
                   \A j \in 1..Len(pendingTransactions') :
                       pendingTransactions'[j].id = pendingTransactions[i].id =>
                           /\ pendingTransactions'[j].status = "failed"
                           /\ pendingTransactions'[j].error =
                                  pendingTransactions[i].error ]_vars

\* a call was refused for insufficient headroom while another
\* transaction was processing, and its failed transaction is in the ledger
C10_Witness ==
    \E k \in 1..Len(calls), i, j \in 1..Len(pendingTransactions) :
        /\ Returned(k)
        /\ calls[k].path = "new"
        /\ calls[k].result.error.kind = "Insufficient balance for onramp"
        /\ pendingTransactions[i].id = calls[k].result.pendingTxId
        /\ pendingTransactions[i].status = "failed"
        /\ pendingTransactions[j].status = "processing"

(* ------------------------- claims on handleWebhook -------------------- *)

\* the calls of stripe.refunds.create made for a session
RefundCalls(s) == Cardinality({k \in CallsOf(s) : calls[k].refunds = 1})

FailedHeadroomCheck(k) ==
    /\ Returned(k)
    /\ calls[k].path = "new"
    /\ calls[k].result.error.kind = "Insufficient balance for onramp"

\* handleWebhook has resumed with what call k returned
Resumed(k) == calls[k].handler # "awaitDeposit"

\* C11 as the spec states it: a call that fails the headroom check is
\* followed by no call of stripe.refunds.create, and a refund is requested
\* only by a call whose transfer was attempted and failed.
C11_NoRefundWithoutTransfer ==
    \A k \in 1..Len(calls) :
        /\ FailedHeadroomCheck(k) => calls[k].refunds = 0
        /\ calls[k].refunds > 0 => calls[k].transfers = 1

\* C11 amended: a call that fails the headroom check attempts no transfer,
\* and handleWebhook, when it resumes with that result, requests one refund
\* with the session's payment intent where the session carries one, and
\* none where it carries none; and a refund is requested only when
\* handleWebhook has resumed with a failure that processDeposit returned,
\* for a session that carries a payment intent, and once by a call.
C11_RefundAfterFailedHeadroomCheck ==
    \A k \in 1..Len(calls) :
        /\ FailedHeadroomCheck(k) =>
               /\ calls[k].transfers = 0
               /\ calls[k].paymentIntent = payment_intent(calls[k].stripeSessionId)
               /\ Resumed(k) =>
                      calls[k].refunds =
                          (IF calls[k].paymentIntent = Undefined THEN 0 ELSE 1)
        /\ calls[k].refunds > 0 =>
               /\ calls[k].refunds = 1
               /\ Resumed(k)
               /\ Returned(k)
               /\ ~calls[k].result.success
               /\ calls[k].paymentIntent # Undefined

\* two calls failed the headroom check: the refund of the one, whose
\* session carries a payment intent, has been issued; the other, whose
\* session carries none, has been acknowledged without a refund
C11_Witness ==
    \E k, m \in 1..Len(calls) :
        /\ FailedHeadroomCheck(k)
        /\ calls[k].paymentIntent # Undefined
        /\ calls[k].handler = "done"
        /\ calls[k].refunds = 1
        /\ ~calls[k].refundFailed
        /\ FailedHeadroomCheck(m)
        /\ calls[m].paymentIntent = Undefined
        /\ calls[m].handler = "done"
        /\ calls[m].acks = 1
        /\ calls[m].refunds = 0

\* C12: when the transfer a call invoked answers with a reference, the
\* call's transaction becomes completed with that reference and the call
\* returns success with it; when it throws, the transaction becomes failed
\* with the error's message and the call returns failure with that message;
\* and handleWebhook, when it resumes after that failure, requests one
\* refund with the session's payment intent.
C12_TransferOutcomeMapping ==
    [][ \A c \in 1..Len(calls) :
            /\ (calls[c].pc = "awaitTransfer" /\ calls'[c].pc = "returned") =>
                   LET r == calls'[c].result
                   IN  \E j \in 1..Len(pendingTransactions') :
                           /\ pendingTransactions'[j].id = calls[c].pendingTxId
                           /\ r.pendingTxId = calls[c].pendingTxId
                           /\ IF r.success
                              THEN /\ r.txHash # NoTxHash
                                   /\ pendingTransactions'[j].status = "completed"
                                   /\ pendingTransactions'[j].txHash = r.txHash
                              ELSE /\ r.error \in Throwable(calls[c], withdrawable,
                                                            RequestErrors)
                                   /\ pendingTransactions'[j].status = "failed"
                                   /\ pendingTransactions'[j].error = r.error
            /\ ( /\ calls[c].transfers = 1
                 /\ calls[c].handler = "awaitDeposit"
                 /\ calls'[c].handler # "awaitDeposit" ) =>
                   IF calls[c].result.success
                   THEN calls'[c].refunds = 0
                   ELSE /\ calls'[c].refunds = 1
                        /\ calls'[c].handler = "awaitRefund"
                        /\ calls'[c].paymentIntent =
                               payment_intent(calls[c].stripeSessionId) ]_vars

\* C13: whatever the number of deliveries, at most one refund is requested
\* for a session whose transfer failed.
C13_OneRefundPerFailedTransfer ==
    \A s \in Sessions :
        (\E k \in CallsOf(s) :
             Returned(k) /\ calls[k].transfers = 1 /\ ~calls[k].result.success)
            => RefundCalls(s) <= 1

\* C14: when stripe.refunds.create throws, the ledger stays as it is (the
\* transaction keeps its status and its reason) and handleWebhook completes
\* with its acknowledgment.
C14_RefundFailureLeavesLedger ==
    [][ \A c \in 1..Len(calls) :
            (calls[c].handler = "awaitRefund" /\ calls'[c].refundFailed) =>
                /\ pendingTransactions' = pendingTransactions
                /\ calls'[c].handler = "done"
                /\ calls'[c].acks = 1
                /\ calls'[c].result = calls[c].result ]_vars

\* the refund of a failed transfer failed; the transaction is failed with
\* the reason the call returned
C14_Witness ==
    \E k \in 1..Len(calls), i \in 1..Len(pendingTransactions) :
        /\ calls[k].refundFailed
        /\ calls[k].transfers = 1
        /\ calls[k].handler = "done"
        /\ pendingTransactions[i].id = calls[k].result.pendingTxId
        /\ pendingTransactions[i].status = "failed"
        /\ pendingTransactions[i].error = calls[k].result.error

\* C15: when getHyperliquidBalance or depositUsdcToHyperliquid throws in a
\* call, the call returns failure with a reason, and the ledger then holds a
\* failed transaction of the session with that reason.
C15_OutboundFailureRecorded ==
    [][ \A c \in 1..Len(calls) :
            ( /\ calls[c].pc \in {"awaitFetch", "awaitTransfer"}
              /\ calls'[c].pc = "returned"
              /\ ~calls'[c].result.success )
            => /\ calls'[c].result.error # NoError
               /\ \E j \in TxOf(pendingTransactions', calls[c].stripeSessionId) :
                      /\ pendingTransactions'[j].status = "failed"
                      /\ pendingTransactions'[j].error = calls'[c].result.error ]_vars

\* C16: a webhook call sends at most one acknowledgment, sends it when
\* processDeposit has returned and the refund (if any) has answered, and has
\* sent exactly one when it is done, whatever the settlement's and the
\* refund's outcome.
C16_OneAcknowledgment ==
    \A k \in 1..Len(calls) :
        /\ calls[k].acks <= 1
        /\ calls[k].acks = 1 <=> calls[k].handler = "done"
        /\ calls[k].acks = 1 => Returned(k)
        /\ calls[k].handler = "awaitRefund" => Returned(k) /\ calls[k].refunds = 1

\* of two acknowledged deliveries, one was settled and the other one's
\* refund failed
C16_Witness ==
    \E k, m \in 1..Len(calls) :
        /\ calls[k].acks = 1 /\ calls[k].result.success
        /\ calls[m].acks = 1 /\ ~calls[m].result.success /\ calls[m].refundFailed

(* -------------------- claims on amounts and balances ------------------ *)

\* C17: whenever a call invokes the transfer, the destination and the amount
\* it passes are those stored in the call's transaction, which is
\* processing.
C17_TransferUsesStoredIntent ==
    [][ \A c \in 1..Len(calls') :
            ( /\ calls'[c].transfers = 1
              /\ (c > Len(calls) \/ calls[c].transfers = 0) )
            => \E j \in 1..Len(pendingTransactions') :
                   /\ pendingTransactions'[j].id = calls'[c].pendingTxId
                   /\ pendingTransactions'[j].status = "processing"
                   /\ pendingTransactions'[j].amount = calls'[c].amount
                   /\ pendingTransactions'[j].walletAddress =
                          calls'[c].destinationAddress ]_vars

\* C18: walletAddress, amount, stripeSessionId, id and createdAt of a
\* transaction in the ledger never change.
C18_IntentFieldsImmutable ==
    [][ \A i \in 1..Len(pendingTransactions), j \in 1..Len(pendingTransactions') :
            pendingTransactions'[j].id = pendingTransactions[i].id =>
                /\ pendingTransactions'[j].walletAddress =
                       pendingTransactions[i].walletAddress
                /\ pendingTransactions'[j].amount = pendingTransactions[i].amount
                /\ pendingTransactions'[j].stripeSessionId =
                       pendingTransactions[i].stripeSessionId
                /\ pendingTransactions'[j].createdAt =
                       pendingTransactions[i].createdAt ]_vars

\* a transaction was settled later than it was created by a call that
\* continued it with another destination and another amount
C18_Witness ==
    \E k \in 1..Len(calls), i \in 1..Len(pendingTransactions) :
        /\ Returned(k)
        /\ calls[k].path = "existing"
        /\ pendingTransactions[i].id = calls[k].result.pendingTxId
        /\ pendingTransactions[i].amount # calls[k].amount
        /\ pendingTransactions[i].walletAddress # calls[k].destinationAddress
        /\ pendingTransactions[i].updatedAt > pendingTransactions[i].createdAt
        /\ IsTerminal(pendingTransactions[i])

\* the transactions of a ledger that are pending or processing
InFlight(txs) ==
    {i \in 1..Len(txs) : txs[i].status \in {"pending", "processing"}}

RECURSIVE SumOfAmounts(_, _)
\* the sum of amount over the places S of a ledger (of whole amounts, which
\* add without rounding)
SumOfAmounts(txs, S) ==
    IF S = {} THEN Double(0)
    ELSE LET i == CHOOSE x \in S : TRUE
         IN  Plus(txs[i].amount, SumOfAmounts(txs, S \ {i}))

RECURSIVE SumInLedgerOrder(_, _, _, _)
\* the amounts of the places S of a ledger from place i on, added to sum
\* one after the other as JavaScript adds them
SumInLedgerOrder(txs, S, i, sum) ==
    IF i > Len(txs) THEN sum
    ELSE SumInLedgerOrder(txs, S, i + 1,
             IF i \in S THEN Plus(sum, txs[i].amount) ELSE sum)

\* the JavaScript number Math.max(0, balance - pendingAmount)
Headroom(balance, pendingAmount) ==
    LET difference == Minus(balance, pendingAmount)
    IN  IF LessThan(Double(0), difference) THEN difference ELSE Double(0)

\* getWalletBalance returns to call c in this step
GetWalletBalanceReturnsTo(c) ==
    /\ calls'[c].pc = "awaitBalance"
    /\ (c > Len(calls) \/ calls[c].pc = "awaitFetch")

\* getWalletBalance returns to the capacity query r in this step
GetWalletBalanceReturnsToQuery(r) ==
    /\ requests'[r].endpoint = "capacity"
    /\ requests'[r].status = 200
    /\ (r > Len(requests) \/ requests[r].pc = "awaitFetch")

\* C19: whenever getWalletBalance returns, to a processDeposit call or to
\* a capacity query, pendingAmount is the sum of amount over the pending
\* and processing transactions of the ledger at that time, balance is the
\* cached or fetched balance, and availableForOnramp is
\* max(0, balance - pendingAmount); the sum and the difference are those of
\* JavaScript numbers, the amounts added in the order of the ledger.
C19_ExposureAccounting ==
    [][ /\ \A c \in 1..Len(calls') :
               GetWalletBalanceReturnsTo(c) =>
                   /\ calls'[c].pendingAmount =
                          SumInLedgerOrder(pendingTransactions',
                              InFlight(pendingTransactions'), 1, Double(0))
                   /\ calls'[c].balance = lastBalanceCheck'.balance
                   /\ calls'[c].availableForOnramp =
                          Headroom(calls'[c].balance, calls'[c].pendingAmount)
        /\ \A r \in 1..Len(requests') :
               GetWalletBalanceReturnsToQuery(r) =>
                   /\ requests'[r].body.pendingAmount =
                          SumInLedgerOrder(pendingTransactions',
                              InFlight(pendingTransactions'), 1, Double(0))
                   /\ requests'[r].body.balance = lastBalanceCheck'.balance
                   /\ requests'[r].body.availableForOnramp =
                          Headroom(requests'[r].body.balance,
                                   requests'[r].body.pendingAmount) ]_vars

\* getWalletBalance has returned, to a capacity query, the exposure of two
\* transactions that are processing, 25.21 + 40 = 65.21000000000001, which
\* is not the double of 65.21, and the headroom 100 less that,
\* 34.78999999999999; and to the call for 40 the headroom
\* 100 - 25.21 = 74.78999999999999, which is not the double of 74.79
C19_Witness ==
    /\ \E k \in 1..Len(calls) :
           /\ calls[k].amount = Double(40000)
           /\ calls[k].availableForOnramp = Minus(Double(100000), Double(25210))
           /\ calls[k].availableForOnramp # Double(74790)
    /\ \E r \in 1..Len(requests), i, j \in 1..Len(pendingTransactions) :
           /\ requests[r].endpoint = "capacity"
           /\ requests[r].status = 200
           /\ requests[r].body.balance = Double(100000)
           /\ requests[r].body.pendingAmount = Plus(Double(25210), Double(40000))
           /\ requests[r].body.pendingAmount # Double(65210)
           /\ requests[r].body.availableForOnramp =
                  Minus(Double(100000), requests[r].body.pendingAmount)
           /\ requests[r].body.availableForOnramp # Double(34790)
           /\ i < j
           /\ pendingTransactions[i].status = "processing"
           /\ pendingTransactions[i].amount = Double(25210)
           /\ pendingTransactions[j].status = "processing"
           /\ pendingTransactions[j].amount = Double(40000)

\* C20 as the spec states it: a call of getWalletBalance made while the age
\* of the cache is below cacheExpiry returns the cached balance without
\* calling getHyperliquidBalance, whatever the cached balance; any other
\* call fetches (getHyperliquidBalance is called: it sends its request, or
\* without a key throws at once), and the answer replaces the cached balance
\* and timestamp.
C20_CacheWithinTimeToLive ==
    [][ /\ Len(calls') > Len(calls) =>
               LET c == Len(calls')
               IN  calls'[c].path = "new" =>
                       IF now - lastBalanceCheck.timestamp < cacheExpiry
                       THEN /\ calls'[c].pc = "awaitBalance"
                            /\ calls'[c].balance = lastBalanceCheck.balance
                            /\ lastBalanceCheck' = lastBalanceCheck
                       ELSE IF walletPrivateKey = ""
                       THEN /\ calls'[c].pc = "returned"
                            /\ calls'[c].fetchFailed
                            /\ lastBalanceCheck' = lastBalanceCheck
                       ELSE calls'[c].pc = "awaitFetch"
        /\ \A c \in 1..Len(calls) :
               (calls[c].pc = "awaitFetch" /\ calls'[c].pc = "awaitBalance") =>
                   /\ lastBalanceCheck'.balance = withdrawable
                   /\ lastBalanceCheck'.timestamp = calls[c].now
                   /\ calls'[c].balance = withdrawable ]_vars

\* C20 amended: the cached balance is returned, without a fetch, exactly
\* when the age of the cache is below cacheExpiry and the cached balance is
\* greater than 0; any other call fetches (getHyperliquidBalance is called:
\* it sends its request, or without a key throws at once), and the answer
\* replaces the cached balance and timestamp.
C20_CacheOfPositiveBalance ==
    [][ /\ Len(calls') > Len(calls) =>
               LET c == Len(calls')
               IN  calls'[c].path = "new" =>
                       IF /\ now - lastBalanceCheck.timestamp < cacheExpiry
                          /\ LessThan(Double(0), lastBalanceCheck.balance)
                       THEN /\ calls'[c].pc = "awaitBalance"
                            /\ calls'[c].balance = lastBalanceCheck.balance
                            /\ lastBalanceCheck' = lastBalanceCheck
                       ELSE IF walletPrivateKey = ""
                       THEN /\ calls'[c].pc = "returned"
                            /\ calls'[c].fetchFailed
                            /\ lastBalanceCheck' = lastBalanceCheck
                       ELSE calls'[c].pc = "awaitFetch"
        /\ \A c \in 1..Len(calls) :
               (calls[c].pc = "awaitFetch" /\ calls'[c].pc = "awaitBalance") =>
                   /\ lastBalanceCheck'.balance = withdrawable
                   /\ lastBalanceCheck'.timestamp = calls[c].now
                   /\ calls'[c].balance = withdrawable ]_vars

\* an earlier call's fetch has filled the cache, and 20 s later
\* getWalletBalance has answered a call from it
C20_Witness ==
    \E k \in 1..Len(calls) :
        /\ calls[k].fromCache
        /\ calls[k].pc = "awaitBalance"
        /\ calls[k].balance = lastBalanceCheck.balance
        /\ LessThan(Double(0), lastBalanceCheck.balance)
        /\ now - lastBalanceCheck.timestamp = 20000

\* the retention of the sweep's default argument, 24 hours in milliseconds
Retention == 86400000

\* the ids of the transactions of a ledger
IdsOf(txs) == {txs[i].id : i \in 1..Len(txs)}

\* the transactions of a ledger whose id is in S, in the ledger's order
KeptIn(txs, S) == SelectSeq(txs, LAMBDA tx : tx.id \in S)

\* C21: a transaction that cleanupOldTransactions removes was completed or
\* failed and older than the retention (24 hours); no pending or processing
\* transaction is removed, and the transactions that stay are unchanged and
\* keep their order.
C21_SweepRemovesOnlyOldSettled ==
    [][ purged' # purged =>
            /\ \A i \in 1..Len(pendingTransactions) :
                   pendingTransactions[i].id \notin IdsOf(pendingTransactions') =>
                       /\ pendingTransactions[i].status \in {"completed", "failed"}
                       /\ now - pendingTransactions[i].createdAt > Retention
            /\ pendingTransactions' =
                   KeptIn(pendingTransactions, IdsOf(pendingTransactions')) ]_vars

\* the sweep has removed a transaction and has left a processing one that
\* is older than the retention too
C21_Witness ==
    /\ purged # {}
    /\ \E i \in 1..Len(pendingTransactions) :
           /\ pendingTransactions[i].status = "processing"
           /\ now - pendingTransactions[i].createdAt > Retention

\* call c takes this step: it starts, or its frame changes
Steps(c) == c > Len(calls) \/ calls'[c] # calls[c]

\* C22: a step of a processDeposit call leaves every transaction of another
\* session in its place and unchanged; and when a call fails the headroom
\* check, the transaction it created for its session is failed.
C22_OtherSessionsUntouched ==
    [][ \A c \in 1..Len(calls') :
            Steps(c) =>
                /\ \A i \in 1..Len(pendingTransactions) :
                       pendingTransactions[i].stripeSessionId #
                               calls'[c].stripeSessionId =>
                           /\ i <= Len(pendingTransactions')
                           /\ pendingTransactions'[i] = pendingTransactions[i]
                /\ ( /\ calls'[c].pc = "returned"
                     /\ calls'[c].result.error.kind =
                            "Insufficient balance for onramp" ) =>
                       \E j \in 1..Len(pendingTransactions') :
                           /\ pendingTransactions'[j].id = calls'[c].result.pendingTxId
                           /\ pendingTransactions'[j].stripeSessionId =
                                  calls'[c].stripeSessionId
                           /\ pendingTransactions'[j].status = "failed" ]_vars

\* session sess_1's transaction of 80 is processing, untouched since it was
\* set to processing, and session sess_2's call for 30 has failed the
\* headroom check because of it: of the balance 100, 20 were available
C22_Witness ==
    \E i, j \in 1..Len(pendingTransactions), k \in 1..Len(calls) :
        /\ pendingTransactions[i].stripeSessionId = "sess_1"
        /\ pendingTransactions[i].status = "processing"
        /\ pendingTransactions[i].amount = Double(80000)
        /\ calls[k].stripeSessionId = "sess_2"
        /\ Returned(k)
        /\ calls[k].result.error = InsufficientBalance(Double(30000), Double(20000))
        /\ pendingTransactions[j].id = calls[k].result.pendingTxId
        /\ pendingTransactions[j].stripeSessionId = "sess_2"
        /\ pendingTransactions[j].status = "failed"

\* the ids createPendingTransaction can give out
TxIds == 1..MaxCalls

\* the transaction with this id is in the ledger with this status
HasStatus(id, status) ==
    \E i \in 1..Len(pendingTransactions) :
        /\ pendingTransactions[i].id = id
        /\ pendingTransactions[i].status = status

\* C23: every transaction that is processing is completed or failed at some
\* later time.
C23_ProcessingEventuallySettles ==
    \A id \in TxIds :
        HasStatus(id, "processing") ~>
            (HasStatus(id, "completed") \/ HasStatus(id, "failed"))

\* request r takes this step: it arrives, or its frame changes
RequestSteps(r) == r > Len(requests) \/ requests'[r] # requests[r]

QueryEndpoints == {"capacity", "status", "transactions"}

\* C24 as the spec states it: no step of a status query, of the query of
\* all statuses or of the capacity query changes the ledger or the balance
\* cache.
C24_QueriesArePureReads ==
    [][ \A r \in 1..Len(requests') :
            (RequestSteps(r) /\ requests'[r].endpoint \in QueryEndpoints) =>
                /\ pendingTransactions' = pendingTransactions
                /\ lastBalanceCheck' = lastBalanceCheck ]_vars

\* C24 amended: no step of a query changes the ledger; the status queries
\* leave the balance cache as it is, and so does a capacity query that is
\* answered from the cache or whose fetch fails; a capacity query whose
\* fetch is answered replaces the cached balance by the fetched one and the
\* cached timestamp by the time the query started.
C24_QueriesLeaveLedger ==
    [][ \A r \in 1..Len(requests') :
            (RequestSteps(r) /\ requests'[r].endpoint \in QueryEndpoints) =>
                /\ pendingTransactions' = pendingTransactions
                /\ nextId' = nextId
                /\ IF /\ r <= Len(requests)
                      /\ requests[r].pc = "awaitFetch"
                      /\ requests'[r].status = 200
                   THEN /\ lastBalanceCheck'.balance = withdrawable
                        /\ lastBalanceCheck'.timestamp = requests[r].now
                        /\ requests'[r].body.balance = withdrawable
                   ELSE lastBalanceCheck' = lastBalanceCheck ]_vars

\* a capacity query has been answered 200 with a balance fetched after the
\* payment was settled and the clock had passed the cache's time-to-live,
\* the cache holds that balance, and a status query has been answered with
\* a transaction
C24_Witness ==
    \E r, q \in 1..Len(requests) :
        /\ requests[r].endpoint = "capacity"
        /\ requests[r].status = 200
        /\ requests[r].fetches = 1
        /\ lastBalanceCheck.balance = requests[r].body.balance
        /\ lastBalanceCheck.timestamp = 86520000
        /\ \E k \in 1..Len(calls) : calls[k].result.success
        /\ requests[q].endpoint = "status"
        /\ requests[q].status = 200

\* C25: in every state, a transaction has a txHash exactly if it is
\* completed, and an error exactly if it is failed.
C25_OutcomeFieldsMatchStatus ==
    \A i \in 1..Len(pendingTransactions) :
        /\ pendingTransactions[i].txHash # NoTxHash <=>
               pendingTransactions[i].status = "completed"
        /\ pendingTransactions[i].error # NoError <=>
               pendingTransactions[i].status = "failed"

\* C26: a transaction is processing before the headroom check of its call
\* is made (while the call is in getWalletBalance or waits for its answer,
\* the ledger holds a processing transaction of its session), and a
\* transaction becomes completed or failed only from processing: one that
\* is completed or failed after a step was in the ledger before the step,
\* processing or with that status already.
C26_PendingProcessingTerminal ==
    [][ /\ \A c \in 1..Len(calls') :
               calls'[c].pc \in {"awaitFetch", "awaitBalance"} =>
                   \E j \in 1..Len(pendingTransactions') :
                       /\ pendingTransactions'[j].stripeSessionId =
                              calls'[c].stripeSessionId
                       /\ pendingTransactions'[j].status = "processing"
        /\ \A j \in 1..Len(pendingTransactions') :
               IsTerminal(pendingTransactions'[j]) =>
                   \E i \in 1..Len(pendingTransactions) :
                       /\ pendingTransactions[i].id = pendingTransactions'[j].id
                       /\ pendingTransactions[i].status \in
                              {"processing", pendingTransactions'[j].status} ]_vars

\* C27: a call invokes the transfer only after getWalletBalance has
\* answered it with an availableForOnramp that is not below its amount,
\* also when it continues with a transaction that exists already.
C27_HeadroomBeforeTransfer ==
    [][ \A c \in 1..Len(calls') :
            ( /\ calls'[c].transfers = 1
              /\ (c > Len(calls) \/ calls[c].transfers = 0) )
            => /\ c <= Len(calls)
               /\ calls[c].pc = "awaitBalance"
               /\ ~LessThan(calls[c].availableForOnramp, calls[c].amount) ]_vars

\* the amount of a checkout request is above 250000 cents, or below 500
\* cents
IsAboveLimit(request) ==
    LessThan(Integer(250000),
             MathRound(Times(request.input.amount.number, Integer(100))))

IsBelowLimit(request) ==
    LessThan(MathRound(Times(request.input.amount.number, Integer(100))),
             Integer(500))

\* C28: a checkout request whose amount in cents is above 250000 or below
\* 500 is answered 400 in the step in which it arrives, without a call of
\* getWalletBalance and without a call of stripe.checkout.sessions.create;
\* and no request is suspended or has invoked either with such an amount.
C28_LimitsFirst ==
    [][ \A r \in 1..Len(requests') :
            ( /\ requests'[r].endpoint = "checkout"
              /\ requests'[r].input.amount.type = "number"
              /\ \/ IsAboveLimit(requests'[r])
                 \/ IsBelowLimit(requests'[r]) )
            => /\ requests'[r].status = 400
               /\ requests'[r].pc = "responded"
               /\ requests'[r].fetches = 0
               /\ requests'[r].sessions = 0
               /\ r > Len(requests) =>
                      lastBalanceCheck' = lastBalanceCheck ]_vars

\* requests of 4.994 and of 2500.005 dollars for a valid wallet have been
\* answered 400 with the messages of the two limits
C28_Witness ==
    \E r, q \in 1..Len(requests) :
        /\ requests[r].input = [amount |-> JsonNumber(Double(4994)),
                                walletAddress |-> JsonString(WalletA)]
        /\ requests[r].body = Rejection("Amount must be at least $5")
        /\ requests[q].input = [amount |-> JsonNumber(Double(2500005)),
                                walletAddress |-> JsonString(WalletA)]
        /\ requests[q].body = Rejection("Amount cannot exceed $2500")

\* C29: createPendingTransaction makes no duplicate: a session that has one
\* transaction in the ledger has no more than one after any step, whatever
\* the step creates.
C29_CreateMakesNoDuplicate ==
    [][ \A s \in Sessions :
            Cardinality(TxOf(pendingTransactions, s)) = 1 =>
                Cardinality(TxOf(pendingTransactions', s)) <= 1 ]_vars

\* the amounts the baseAmount texts of the settling deliveries stand for:
\* 80, 30, -5, and the doubles nearest 4 and 800005 ten-thousandths
AmountRead ==
    [text \in {"80", "30", "80abc", "-5", "0.0004", "80.0005"} |->
        CASE text = "30" -> Integer(30)
          [] text = "-5" -> Integer(-5)
          [] text = "0.0004" -> Decimal(FALSE, Natural(4), 1, -4)
          [] text = "80.0005" -> Decimal(FALSE, Natural(800005), 6, -4)
          [] OTHER -> Integer(80)]

\* what the claim asks of a delivery for a settlement
IsPaidVerifiedCheckout(d) ==
    /\ d.endpointSecret = "whsec_1"
    /\ d.verifies
    /\ d.type = "checkout.session.completed"
    /\ d.session.payment_status = "paid"
    /\ d.session.metadata.walletAddress \in {WalletA, WalletB}
    /\ d.session.metadata.baseAmount \in DOMAIN AmountRead

\* C30: processDeposit is called only in the step in which a delivery
\* arrives that verified, is a paid checkout.session.completed and carries
\* a wallet and an amount that is not zero, and with that session, wallet
\* and amount; the arrival of any other delivery leaves the ledger and the
\* calls (so their transfers and refunds) as they are, and is answered 500
\* without a secret, 400 when the signature does not verify, 200 otherwise.
C30_OnlyPaidVerifiedEventsSettle ==
    [][ /\ Len(calls') > Len(calls) =>
               /\ Len(requests') = Len(requests) + 1
               /\ LET d == requests'[Len(requests')].input
                      call == calls'[Len(calls')]
                  IN  /\ requests'[Len(requests')].endpoint = "webhook"
                      /\ IsPaidVerifiedCheckout(d)
                      /\ call.stripeSessionId = d.session.id
                      /\ call.destinationAddress = d.session.metadata.walletAddress
                      /\ call.amount = AmountRead[d.session.metadata.baseAmount]
        /\ \A r \in 1..Len(requests') :
               ( /\ r > Len(requests)
                 /\ requests'[r].endpoint = "webhook"
                 /\ ~IsPaidVerifiedCheckout(requests'[r].input) )
               => /\ pendingTransactions' = pendingTransactions
                  /\ calls' = calls
                  /\ requests'[r].pc = "responded"
                  /\ requests'[r].status =
                         (IF requests'[r].input.endpointSecret = "" THEN 500
                          ELSE IF ~requests'[r].input.verifies THEN 400
                          ELSE 200) ]_vars

\* while a payment's transaction is processing, an unpaid delivery of its
\* session has been acknowledged and one whose signature did not verify has
\* been answered 400
C30_Witness ==
    \E r, q \in 1..Len(requests), i \in 1..Len(pendingTransactions) :
        /\ pendingTransactions[i].status = "processing"
        /\ requests[r].input.session.payment_status = "unpaid"
        /\ requests[r].input.session.id = pendingTransactions[i].stripeSessionId
        /\ requests[r].status = 200
        /\ ~requests[q].input.verifies
        /\ requests[q].status = 400
        /\ \A k \in 1..Len(calls) : calls[k].transfers + calls[k].refunds <= 1

\* C31: when getHyperliquidBalance throws, getWalletBalance throws: the
\* processDeposit call it was made in returns failure with the fetch's
\* message, the capacity query is answered 500 with it, and the cache and
\* the ledger stay as they are, also when it throws at once for want of
\* a key.  A capacity query that fetched is answered 200 only with the
\* balance the venue reports, never with a cached one.
C31_FetchErrorPropagates ==
    [][ /\ \A c \in 1..Len(calls) :
               (calls[c].pc = "awaitFetch" /\ calls'[c].fetchFailed) =>
                   /\ calls'[c].pc = "returned"
                   /\ ~calls'[c].result.success
                   /\ calls'[c].result.error.kind =
                          "Failed to get balance from Hyperliquid API"
                   /\ lastBalanceCheck' = lastBalanceCheck
                   /\ pendingTransactions' = pendingTransactions
        /\ \A r \in 1..Len(requests) :
               ( /\ requests[r].endpoint = "capacity"
                 /\ requests[r].pc = "awaitFetch"
                 /\ requests'[r].pc # "awaitFetch" )
               => \/ /\ requests'[r].status = 500
                     /\ requests'[r].body =
                            [success |-> FALSE,
                             message |-> "Failed to get balance from Hyperliquid API"]
                     /\ lastBalanceCheck' = lastBalanceCheck
                     /\ pendingTransactions' = pendingTransactions
                  \/ /\ requests'[r].status = 200
                     /\ requests'[r].body.balance = withdrawable
                     /\ lastBalanceCheck'.balance = withdrawable
        /\ \A c \in 1..Len(calls') :
               (c > Len(calls) /\ calls'[c].fetchFailed) =>
                   /\ walletPrivateKey = ""
                   /\ calls'[c].pc = "returned"
                   /\ ~calls'[c].result.success
                   /\ calls'[c].result.error.kind =
                          "Wallet private key not configured"
                   /\ lastBalanceCheck' = lastBalanceCheck
                   /\ pendingTransactions' = pendingTransactions
        /\ \A r \in 1..Len(requests') :
               ( /\ r > Len(requests)
                 /\ requests'[r].endpoint = "capacity"
                 /\ requests'[r].status # 200
                 /\ requests'[r].pc = "responded" )
               => /\ walletPrivateKey = ""
                  /\ requests'[r].status = 500
                  /\ requests'[r].body =
                         [success |-> FALSE,
                          message |-> "Wallet private key not configured"]
                  /\ lastBalanceCheck' = lastBalanceCheck
                  /\ pendingTransactions' = pendingTransactions ]_vars

\* a capacity query has been answered 500 while the cache holds a balance
\* that has expired and differs from the venue's
C31_Witness ==
    \E r \in 1..Len(requests) :
        /\ requests[r].endpoint = "capacity"
        /\ requests[r].status = 500
        /\ LessThan(Double(0), lastBalanceCheck.balance)
        /\ lastBalanceCheck.balance # withdrawable
        /\ now - lastBalanceCheck.timestamp >= cacheExpiry

\* C32: updatePendingTransaction(id, updates) for an id in the ledger
\* stores that transaction with the fields of `updates` overwritten, whatever
\* status they give and whatever status it had, with updatedAt set to the
\* current time, which is not earlier than the updatedAt before, and with
\* its other fields and the other transactions as they were, and returns
\* it; for an id not in the ledger it returns undefined and the ledger is as
\* it was.
C32_UpdateOverwritesAnyStatus ==
    [][ ( /\ requests' # requests
          /\ requests'[1].endpoint = "updatePendingTransaction" )
        => LET id == requests'[1].input.id
               updates == requests'[1].input.updates
               returned == requests'[1].body
               before == pendingTransactions
               after == pendingTransactions'
           IN  /\ Len(after) = Len(before)
               /\ \A i \in 1..Len(before) :
                      IF before[i].id = id
                      THEN /\ after[i].status = updates.status
                           /\ "txHash" \in DOMAIN updates =>
                                  after[i].txHash = updates.txHash
                           /\ "error" \in DOMAIN updates =>
                                  after[i].error = updates.error
                           /\ after[i].updatedAt = now
                           /\ after[i].updatedAt >= before[i].updatedAt
                           /\ \A f \in DOMAIN before[i] \ (DOMAIN updates \cup {"updatedAt"}) :
                                  after[i][f] = before[i][f]
                           /\ returned = after[i]
                      ELSE after[i] = before[i]
               /\ (\A i \in 1..Len(before) : before[i].id # id) =>
                      /\ returned.status = "undefined"
                      /\ after = before ]_vars

\* a transaction that was completed with a txHash has been set back to
\* pending at a later time, and the latest call, for an id that is not in
\* the ledger, has returned undefined
C32_Witness ==
    /\ Len(requests) = 1
    /\ requests[1].endpoint = "updatePendingTransaction"
    /\ requests[1].input.id = 2
    /\ requests[1].body.status = "undefined"
    /\ \E i \in 1..Len(pendingTransactions) :
           /\ pendingTransactions[i].status = "pending"
           /\ pendingTransactions[i].txHash # NoTxHash
           /\ pendingTransactions[i].updatedAt > pendingTransactions[i].createdAt

\* what createCheckoutSession does with a balance it has been given: 400
\* and no session when the headroom is below the amount, otherwise the call
\* of stripe.checkout.sessions.create
CapacityChecked(frame, balance, txs) ==
    LET available == MathMax(Double(0), Minus(balance,
                                              calculatePendingAmount(txs)))
    IN  IF LessThan(available, frame.input.amount.number)
        THEN /\ frame.pc = "responded"
             /\ frame.status = 400
             /\ StartsWith(frame.body.message, "Insufficient balance for onramp")
             /\ frame.body.availableForOnramp = available
             /\ frame.sessions = 0
        ELSE /\ frame.pc = "awaitSession"
             /\ frame.sessions = 1

\* C33: a checkout request with a valid amount inside the limits and a valid
\* wallet is answered 400 without a checkout session when getWalletBalance
\* returns availableForOnramp below the amount, from the cache in the
\* step the request arrives or from the fetch it waited for; and when
\* getWalletBalance throws (after the fetch it waited for, or at once for
\* want of a key), the request goes on to create the session, with no
\* response yet and the cache as it was.
C33_CapacityCheckFailsOpen ==
    [][ \A r \in 1..Len(requests') :
            ( /\ requests'[r].endpoint = "checkout"
              /\ requests'[r].input.amount.type = "number"
              /\ LessThan(Double(0), requests'[r].input.amount.number)
              /\ requests'[r].input.walletAddress.text = WalletA
              /\ ~IsBelowLimit(requests'[r])
              /\ ~IsAboveLimit(requests'[r]) )
            => /\ ( /\ r > Len(requests)
                    /\ LessThan(Double(0), lastBalanceCheck.balance)
                    /\ now - lastBalanceCheck.timestamp < 30000 )
                  => CapacityChecked(requests'[r], lastBalanceCheck.balance,
                                     pendingTransactions)
               /\ ( /\ r > Len(requests)
                    /\ walletPrivateKey = ""
                    /\ ~( /\ LessThan(Double(0), lastBalanceCheck.balance)
                          /\ now - lastBalanceCheck.timestamp < 30000 ) )
                  => /\ lastBalanceCheck' = lastBalanceCheck
                     /\ requests'[r].pc = "awaitSession"
                     /\ requests'[r].sessions = 1
                     /\ requests'[r].status = 0
               /\ ( /\ r <= Len(requests)
                    /\ requests[r].pc = "awaitFetch"
                    /\ requests'[r].pc # "awaitFetch" )
                  => \/ /\ lastBalanceCheck' =
                               [timestamp |-> requests[r].now,
                                balance |-> withdrawable]
                        /\ CapacityChecked(requests'[r], withdrawable,
                                           pendingTransactions)
                     \/ /\ lastBalanceCheck' = lastBalanceCheck
                        /\ requests'[r].pc = "awaitSession"
                        /\ requests'[r].sessions = 1
                        /\ requests'[r].status = 0 ]_vars

\* a request of 80 dollars has been answered 400 for the headroom, and
\* another of 80 dollars has had its session created, at a balance that
\* has been 30 throughout: its fetch of the balance threw
C33_Witness ==
    \E r, q \in 1..Len(requests) :
        /\ requests[r].endpoint = "checkout"
        /\ requests[r].input.amount.number = Double(80000)
        /\ requests[r].status = 400
        /\ requests[r].body.message =
               "Insufficient balance for onramp. Maximum available: $30.00"
        /\ requests[r].sessions = 0
        /\ requests[q].endpoint = "checkout"
        /\ requests[q].input.amount.number = Double(80000)
        /\ requests[q].sessions = 1
        /\ requests[q].status = 200
        /\ withdrawable = Double(30000)

\* the transfer a call for session s invoked has answered with a reference
Credited(s) ==
    \E k \in CallsOf(s) :
        calls[k].transfers = 1 /\ Returned(k) /\ calls[k].result.success

\* stripe.refunds.create has been called for session s
RefundRequested(s) == \E k \in CallsOf(s) : calls[k].refunds > 0

\* C34: no session is both credited and refunded: whatever the deliveries
\* of a session's event, one after the other or overlapping, also after a
\* failed balance fetch that left no transaction, it never happens that a
\* transfer for the session has succeeded and a refund has been requested
\* for it.
C34_NeverCreditedAndRefunded ==
    \A s \in Sessions : ~(Credited(s) /\ RefundRequested(s))

\* the calls for session s came one after the other, and each of them that
\* has returned left or found a transaction of the session
DeliveredInTurn(s) ==
    \A k \in CallsOf(s) : ~calls[k].overlapping /\ ~calls[k].fetchFailed

\* C35: replay protection survives the sweep: when the event of a session
\* is delivered again after the earlier delivery has returned, the
\* transfer is invoked at most once for the session, also when
\* cleanupOldTransactions has deleted the session's completed or failed
\* transaction in between.
C35_ReplayProtectionSurvivesPurge ==
    \A s \in Sessions : DeliveredInTurn(s) => TransferCalls(s) <= 1

\* the pending and processing transactions of a ledger whose amount the
\* venue has not moved for any call
Unexecuted(txs) ==
    {i \in InFlight(txs) :
        \A k \in 1..Len(calls) :
            calls[k].pendingTxId = txs[i].id => ~calls[k].executed}

\* C36: the headroom check is sound against the balance at the venue, which
\* decreases by the amount of each transfer that succeeds: when
\* getWalletBalance answers a call for a new session from the cache, within
\* its 30 seconds, with the headroom that passes the check of line 237, the
\* call's amount is at most the balance at the venue less the amounts of
\* the pending and processing transactions that the venue has not moved
\* yet.
C36_HeadroomSoundAgainstVenue ==
    [][ \A c \in 1..Len(calls') :
            ( /\ c > Len(calls)
              /\ calls'[c].pc = "awaitBalance"
              /\ calls'[c].fromCache
              /\ ~LessThan(calls'[c].availableForOnramp, calls'[c].amount) )
            => ~LessThan(Minus(withdrawable,
                               SumOfAmounts(pendingTransactions,
                                            Unexecuted(pendingTransactions))),
                         calls'[c].amount) ]_vars

\* the calls are for distinct sessions, each new to the ledger when its
\* call started
DistinctNewSessions ==
    /\ \A i, j \in 1..Len(calls) :
           i # j => calls[i].stripeSessionId # calls[j].stripeSessionId
    /\ \A k \in 1..Len(calls) : calls[k].path = "new"

\* the venue has executed no transfer: its balance is the one it had
NoTransferSucceeded ==
    \A k \in 1..Len(calls) : ~calls[k].executed

\* the transactions of a ledger that are processing
Processing(txs) == {i \in 1..Len(txs) : txs[i].status = "processing"}

\* C37: no oversubscription: while the balance at the venue stays what it
\* is, whatever the interleaving of processDeposit calls for distinct new
\* sessions, the amounts of the transactions that are processing at the same
\* time sum to no more than the balance.
C37_NoOversubscription ==
    (DistinctNewSessions /\ NoTransferSucceeded)
        => ~LessThan(withdrawable,
                     SumOfAmounts(pendingTransactions,
                                  Processing(pendingTransactions)))

\* the calls whose transfer has answered with a reference
CreditedCalls ==
    {k \in 1..Len(calls) :
        calls[k].transfers = 1 /\ Returned(k) /\ calls[k].result.success}

\* the direct calls of incrementTotalOnrampedAmount
DirectIncrements ==
    {r \in 1..Len(requests) :
        requests[r].endpoint = "incrementTotalOnrampedAmount"}

\* what was added to the total: the amount of a transfer that answered, or
\* the argument of a direct call
Addends(credited, direct) ==
    {[amount |-> calls[k].amount, call |-> k, request |-> 0] : k \in credited}
        \cup {[amount |-> requests[r].input, call |-> 0, request |-> r] :
                  r \in direct}

RECURSIVE SumsInAnyOrder(_, _)
\* the totals that adding the amounts of S to total, one after the other as
\* JavaScript adds them, in some order, can give
SumsInAnyOrder(S, total) ==
    IF S = {} THEN {total}
    ELSE UNION {SumsInAnyOrder(S \ {a}, Plus(total, a.amount)) : a \in S}

\* a transfer answers call c with a reference in this step
TransferSucceedsIn(c) ==
    /\ calls[c].pc = "awaitTransfer"
    /\ calls'[c].pc = "returned"
    /\ calls'[c].result.success

\* incrementTotalOnrampedAmount is called directly in this step
DirectIncrementStep ==
    /\ Len(requests') = Len(requests) + 1
    /\ requests'[Len(requests')].endpoint = "incrementTotalOnrampedAmount"

\* C38 as it is stated: totalOnrampedAmount is always 39 plus the amounts
\* of the transfers that answered with a reference within processDeposit
\* (added as JavaScript adds them); it never decreases, and a step in which
\* no transfer answers with a reference (a transfer that throws, the replay
\* of a completed or failed transaction, cleanupOldTransactions, and every
\* other) leaves it as it is.
C38_RunningTotal ==
    /\ [](totalOnrampedAmount \in
              SumsInAnyOrder(Addends(CreditedCalls, {}), Double(39000)))
    /\ [][ /\ ~LessThan(totalOnrampedAmount', totalOnrampedAmount)
           /\ (\A c \in 1..Len(calls) : ~TransferSucceedsIn(c))
              => totalOnrampedAmount' = totalOnrampedAmount ]_vars

\* C38 amended: totalOnrampedAmount starts at 39 and is changed only by
\* incrementTotalOnrampedAmount, which adds its argument as JavaScript adds:
\* in the step in which a transfer answers a processDeposit call with a
\* reference, the amount of that call, and in a direct call of the exported
\* function, the argument of the call.  So it is always 39 plus the amounts
\* of the transfers that answered and of the direct calls; a step of the
\* settlement never decreases it; and every other step (a transfer that
\* throws, the replay of a completed or failed transaction,
\* cleanupOldTransactions) leaves it as it is.
C38_RunningTotalWithDirectCalls ==
    /\ [](totalOnrampedAmount \in
              SumsInAnyOrder(Addends(CreditedCalls, DirectIncrements),
                             Double(39000)))
    /\ [][ /\ \A c \in 1..Len(calls) :
                  TransferSucceedsIn(c) =>
                      /\ totalOnrampedAmount' =
                             Plus(totalOnrampedAmount, calls[c].amount)
                      /\ LessThan(totalOnrampedAmount, totalOnrampedAmount')
           /\ DirectIncrementStep =>
                  totalOnrampedAmount' =
                      Plus(totalOnrampedAmount, requests'[Len(requests')].input)
           /\ ( /\ \A c \in 1..Len(calls) : ~TransferSucceedsIn(c)
                /\ ~DirectIncrementStep )
              => totalOnrampedAmount' = totalOnrampedAmount ]_vars

\* the transfer of 25.21 for one session succeeded, then
\* incrementTotalOnrampedAmount was called with -5; the transfer for another
\* session threw, and cleanupOldTransactions deleted a transaction: the
\* total is 39 + 25.21 - 5 as JavaScript adds them in that order,
\* 59.21000000000001, which is not the double of 59.21
C38_Witness ==
    /\ totalOnrampedAmount =
           Plus(Plus(Double(39000), Double(25210)), Double(-5000))
    /\ totalOnrampedAmount # Double(59210)
    /\ \E k \in CreditedCalls : calls[k].amount = Double(25210)
    /\ \E r \in DirectIncrements : requests[r].input = Double(-5000)
    /\ Cardinality(CreditedCalls) = 1
    /\ Cardinality(DirectIncrements) = 1
    /\ \E k \in 1..Len(calls) :
           calls[k].transfers = 1 /\ Returned(k) /\ ~calls[k].result.success
    /\ purged # {}

\* the endpoints a customer calls before and after paying
CheckoutEndpoints == {"checkout", "verify"}

\* C39: checkout creation reserves no capacity: a step of createCheckoutSession
\* or of verifySession leaves the ledger as it is, so the pending amount,
\* and the headroom getWalletBalance computes from any balance, are the same
\* after it as before; the balance of the cache is left alone or replaced by
\* the balance at the venue, never lowered by the amount asked for; and the
\* pending amount changes only in a step of a processDeposit call.
C39_CheckoutReservesNothing ==
    [][ /\ ( \E r \in 1..Len(requests') :
                 RequestSteps(r) /\ requests'[r].endpoint \in CheckoutEndpoints )
           => /\ pendingTransactions' = pendingTransactions
              /\ calculatePendingAmount(pendingTransactions') =
                     calculatePendingAmount(pendingTransactions)
              /\ \A balance \in InitialBalances :
                     availableForOnramp(balance, pendingTransactions') =
                         availableForOnramp(balance, pendingTransactions)
              /\ \/ lastBalanceCheck' = lastBalanceCheck
                 \/ lastBalanceCheck'.balance = withdrawable
              /\ withdrawable' = withdrawable
        /\ calculatePendingAmount(pendingTransactions') #
               calculatePendingAmount(pendingTransactions)
           => \E c \in 1..Len(calls') : Steps(c) ]_vars

\* a checkout session has been created and a paid session verified, shown
\* with a pending transaction it does not have, while the ledger holds the
\* one processing transaction of another session
C39_Witness ==
    /\ \E r, q \in 1..Len(requests) :
           /\ requests[r].endpoint = "checkout"
           /\ requests[r].status = 200
           /\ requests[r].sessions = 1
           /\ requests[q].endpoint = "verify"
           /\ requests[q].status = 200
           /\ requests[q].body.transaction.status = "pending"
           /\ requests[q].input.id = "sess_1"
    /\ Len(pendingTransactions) = 1
    /\ pendingTransactions[1].stripeSessionId = "sess_2"
    /\ pendingTransactions[1].status = "processing"

====
